---- MODULE Spec2Model ----
(***************************************************************************)
(* State-machine model of the Jarvis Live backend gateway:                 *)
(*   - the MCP bridge (tool broker)           src/_python/src/mcp_bridge.py *)
(*   - the request entry points               src/_python/src/main*.py      *)
(*   - the context store                      src/_python/src/ai/context_manager.py *)
(*   - the workflow engine                    src/_python/src/ai/advanced_voice_processor.py *)
(*   - the WebSocket session multiplexer      src/_python/src/api/websocket_manager.py *)
(* Each subsystem has its own next-state relation and specification over   *)
(* the shared variables; a subsystem's actions leave the others unchanged. *)
(***************************************************************************)
EXTENDS Integers, Sequences, FiniteSets, TLC

VARIABLES
    \* ---- MCP bridge (MCPBridge) and the tool objects it holds
    initialization_complete,  \* MCPBridge.initialization_complete
    servers,                  \* keys of MCPBridge.servers (registered tool handles)
    server_status,            \* MCPBridge.server_status: name -> MCPServerStatus
    is_running,               \* <tool>.is_running of each tool object
    bridgeTask,               \* position of the initialize / start_all / shutdown loop
    lastDispatch,             \* what the last execute_command call did
    \* ---- request entry points (REST handlers and the duplex handler)
    toolOps,                  \* tool operations executed so far, with how the request was admitted
    lastResponse,             \* status of the last request handled
    \* ---- context store (ContextManager)
    heap,                     \* ConversationContext objects, by identity
    local_cache,              \* ContextManager.local_cache: key -> object identity
    redis_ctx,                \* shared KV: context key -> serialized context
    redis_sessions,           \* shared KV: per-user set of session ids
    ctxTask,                  \* the concurrent requests on the context store
    \* ---- workflow engine (AdvancedVoiceProcessor.active_workflows)
    active_workflows,                 \* the MultiStepWorkflow under observation
    wfCall,                   \* the concurrent continue_workflow calls
    wfExec,                   \* how many times each step was executed
    wfFailed,                 \* how many executions of each step were cut short
    processing_stats,         \* AdvancedVoiceProcessor.processing_stats
    lastProcess,              \* what the last process_advanced_command call did
    \* ---- session multiplexer (WebSocketManager) and its transports
    ws,                       \* the WebSocket transports
    active_connections,       \* WebSocketManager.active_connections
    connection_groups,        \* WebSocketManager.connection_groups
    cleanup_task,             \* WebSocketManager.cleanup_task
    sendTask,                 \* the concurrent broadcast / group-send loops
    issued,                   \* number of sends issued so far (logical issue time)
    now,                      \* wall clock, in seconds
    shutdownTask,             \* position of the WebSocketManager.shutdown loop
    \* ---- token authenticator (JWTAuth and the /auth routes)
    auth_now,                 \* wall clock of the authenticator, with the ticks taken
    tokens,                   \* tokens signed by the server so far
    lastAuth,                 \* request and response of the last /auth call
    \* ---- one ConversationContext and its summary
    conversation_history,     \* ConversationContext.conversation_history
    interactions,             \* add_interaction calls made so far on the context
    lastSummary,              \* result of the last get_context_summary
    current_topic,            \* ConversationContext.current_topic
    \* ---- voice classifier (VoiceClassifier)
    classification_cache,     \* VoiceClassifier.classification_cache: key -> result
    context_cache,            \* VoiceClassifier.context_cache: key -> context
    classifier_metrics,       \* cache_hits and total_classifications
    classify_clock,           \* time.time(), in seconds
    lastClassify,             \* arguments and outcome of the last classify_command call
    \* ---- classification cache of PerformanceOptimizer
    opt_local_cache,          \* PerformanceOptimizer.local_cache: key -> result and timestamp
    opt_redis,                \* shared KV: key -> serialized result and expiry
    opt_clock,                \* time.time() of the optimizer, in seconds
    lastCacheOp,              \* arguments and outcome of the last cache lookup or insert
    \* ---- batch queue of PerformanceOptimizer
    batch_queue,              \* PerformanceOptimizer.batch_queue
    processing_batches,       \* PerformanceOptimizer.processing_batches
    drainTasks,               \* the process_batch_queue tasks created so far
    processed,                \* requests processed, in order, with the drain that processed them
    submitted                 \* number of requests given to add_to_batch_queue

bridgeVars  == <<initialization_complete, servers, server_status, is_running,
                 bridgeTask, lastDispatch>>
gatewayVars == <<toolOps, lastResponse>>
contextVars == <<heap, local_cache, redis_ctx, redis_sessions, ctxTask>>
workflowVars == <<active_workflows, wfCall, wfExec, wfFailed, processing_stats,
                  lastProcess>>
sessionVars == <<ws, active_connections, connection_groups, cleanup_task,
                 sendTask, issued, now>>
shutdownVars == <<shutdownTask>>
authVars == <<auth_now, tokens, lastAuth>>
historyVars == <<conversation_history, interactions, lastSummary,
                 current_topic>>
classifierVars == <<classification_cache, context_cache, classifier_metrics,
                    classify_clock, lastClassify>>
optimizerVars == <<opt_local_cache, opt_redis, opt_clock, lastCacheOp>>
batchVars == <<batch_queue, processing_batches, drainTasks, processed,
               submitted>>
vars == <<bridgeVars, gatewayVars, contextVars, workflowVars, sessionVars,
          shutdownVars, authVars, historyVars, classifierVars, optimizerVars,
          batchVars>>

nonBridgeVars == <<gatewayVars, contextVars, workflowVars, sessionVars,
                   shutdownVars, authVars, historyVars, classifierVars,
                   optimizerVars, batchVars>>
nonGatewayVars == <<bridgeVars, contextVars, workflowVars, sessionVars,
                    shutdownVars, authVars, historyVars, classifierVars,
                    optimizerVars, batchVars>>
nonContextVars == <<bridgeVars, gatewayVars, workflowVars, sessionVars,
                    shutdownVars, authVars, historyVars, classifierVars,
                    optimizerVars, batchVars>>
\* Everything but the workflow engine and the classifier it calls.
nonWorkflowClassifierVars == <<bridgeVars, gatewayVars, contextVars, sessionVars,
                               shutdownVars, authVars, historyVars,
                               optimizerVars, batchVars>>
nonWorkflowVars == <<bridgeVars, gatewayVars, contextVars, sessionVars,
                     shutdownVars, authVars, historyVars, classifierVars,
                     optimizerVars, batchVars>>
nonSessionVars == <<bridgeVars, gatewayVars, contextVars, workflowVars,
                    shutdownVars, authVars, historyVars, classifierVars,
                    optimizerVars, batchVars>>
nonManagerVars == <<bridgeVars, gatewayVars, contextVars, workflowVars,
                    authVars, historyVars, classifierVars, optimizerVars,
                    batchVars>>
nonAuthVars == <<bridgeVars, gatewayVars, contextVars, workflowVars,
                 sessionVars, shutdownVars, historyVars, classifierVars,
                 optimizerVars, batchVars>>
nonHistoryVars == <<bridgeVars, gatewayVars, contextVars, workflowVars,
                    sessionVars, shutdownVars, authVars, classifierVars,
                    optimizerVars, batchVars>>
nonClassifierVars == <<bridgeVars, gatewayVars, contextVars, workflowVars,
                       sessionVars, shutdownVars, authVars, historyVars,
                       optimizerVars, batchVars>>
nonOptimizerVars == <<bridgeVars, gatewayVars, contextVars, workflowVars,
                      sessionVars, shutdownVars, authVars, historyVars,
                      classifierVars, batchVars>>
nonBatchVars == <<bridgeVars, gatewayVars, contextVars, workflowVars,
                  sessionVars, shutdownVars, authVars, historyVars,
                  classifierVars, optimizerVars>>

None == "None"

(***************************************************************************)
(*                            MCP  BRIDGE                                  *)
(***************************************************************************)

\* The tools of server_configs that the model runs (declaration order); the
\* other tools have the same lifecycle code.
ServerOrder == <<"document", "email">>
ServerNames == {ServerOrder[i] : i \in 1..Len(ServerOrder)}

\* server_configs[name]["capabilities"]
Capabilities(name) ==
    CASE name = "document" -> {"generate_pdf", "generate_docx",
                               "generate_markdown", "extract_text"}
      [] name = "email"    -> {"send_email", "read_inbox",
                               "compose_email", "manage_contacts"}
      [] name = "search"   -> {"web_search", "knowledge_query",
                               "fact_check", "research"}
      [] OTHER             -> {}

\* Lifecycle methods every tool class defines.
LifecycleMethods == {"initialize", "start", "shutdown", "ping"}

\* The callable attributes of each tool object (its class's methods).
Methods(name) ==
    LifecycleMethods \cup {"get_server_status"} \cup
    CASE name = "document" -> {"generate_document", "convert_format",
                               "get_available_templates", "_generate_pdf"}
      [] name = "email"    -> {"send_email", "compose_email", "validate_email",
                               "get_available_templates", "_get_smtp_connection"}
      [] name = "search"   -> {"web_search", "knowledge_query", "fact_check",
                               "_search_duckduckgo", "_get_cache_key"}
      [] OTHER             -> {}

\* Command names a caller sends in the model: a capability that is also a
\* method (send_email of email), a capability no class implements
\* (generate_pdf), a method no capability set declares (generate_document),
\* lifecycle methods, and a name that is neither capability nor attribute.
Commands == {"send_email", "generate_pdf", "generate_document",
             "start", "shutdown", "ping", "no_such_command"}

\* Server names a caller may send.
RequestedServers == ServerNames \cup {"no_such_server"}

StatusNone == [status |-> None, last_ping |-> None, error_message |-> None]

BridgeInit ==
    /\ initialization_complete = FALSE
    /\ servers = {}
    /\ server_status = [n \in ServerNames |-> StatusNone]
    /\ is_running = [n \in ServerNames |-> FALSE]
    /\ bridgeTask = [op |-> "initialize", idx |-> 1, raised |-> {}]
    /\ lastDispatch = [server |-> None, command |-> None, status |-> None,
                       invoked |-> FALSE, outcome |-> None]

\* hasattr(server, command)
HasAttr(name, command) == command \in Methods(name)

\* The check execute_command makes before getattr.
CommandAccepted(name, command) == HasAttr(name, command)

\* The check execute_command makes on the tool's handle and status.
ServerAvailable(name) == name \in servers

\* What running method `command` of tool `name` does to the tool object.
ToolEffect(name, command) ==
    CASE command = "start"    -> [is_running EXCEPT ![name] = TRUE]
      [] command = "shutdown" -> [is_running EXCEPT ![name] = FALSE]
      [] OTHER                -> is_running

\* MCPBridge.initialize: one iteration of the loop over server_configs.
\* A tool's initialize() may raise; the exception leaves the loop.
InitializeStep ==
    /\ bridgeTask.op = "initialize"
    /\ LET name == ServerOrder[bridgeTask.idx] IN
       \E ok \in BOOLEAN :
         IF ok
         THEN /\ servers' = servers \cup {name}
              /\ server_status' = [server_status EXCEPT ![name] =
                     [status |-> "initialized", last_ping |-> None,
                      error_message |-> None]]
              /\ IF bridgeTask.idx = Len(ServerOrder)
                 THEN /\ initialization_complete' = TRUE
                      /\ bridgeTask' = [op |-> "idle", idx |-> 1, raised |-> {}]
                 ELSE /\ bridgeTask' = [bridgeTask EXCEPT !.idx = @ + 1]
                      /\ UNCHANGED initialization_complete
         ELSE /\ bridgeTask' = [op |-> "idle", idx |-> 1, raised |-> {}]
              /\ UNCHANGED <<servers, server_status, initialization_complete>>
    /\ UNCHANGED <<is_running, lastDispatch, nonBridgeVars>>

\* MCPBridge.start_all_servers: the guard and the entry into the loop.
StartAllServers ==
    /\ bridgeTask.op = "idle"
    /\ initialization_complete
    /\ bridgeTask' = [op |-> "start_all", idx |-> 1, raised |-> {}]
    /\ UNCHANGED <<initialization_complete, servers, server_status,
                   is_running, lastDispatch, nonBridgeVars>>

\* start_all_servers with a loop that a failing start leaves: the exception
\* propagates and the tool's status is not updated.
StartServerStepAborts(ok) ==
    /\ bridgeTask.op = "start_all"
    /\ LET name == ServerOrder[bridgeTask.idx] IN
       IF ok
       THEN /\ is_running' = [is_running EXCEPT ![name] = TRUE]
            /\ server_status' = [server_status EXCEPT
                   ![name].status = "running", ![name].last_ping = "set"]
            /\ bridgeTask' = IF bridgeTask.idx = Len(ServerOrder)
                             THEN [bridgeTask EXCEPT !.op = "idle", !.idx = 1]
                             ELSE [bridgeTask EXCEPT !.idx = @ + 1]
       ELSE /\ bridgeTask' = [bridgeTask EXCEPT !.op = "idle", !.idx = 1,
                                               !.raised = @ \cup {name}]
            /\ UNCHANGED <<is_running, server_status>>
    /\ UNCHANGED <<initialization_complete, servers, lastDispatch,
                   nonBridgeVars>>

\* One iteration of the start_all_servers loop: await server.start().  The
\* start methods of the tool classes shipped in src/mcp do not raise; the
\* except branch is the bridge's handling of a tool handle whose start does
\* (ok = FALSE).  bridgeTask.raised records the tools whose start raised in
\* this call.
StartServerStep(ok) ==
    /\ bridgeTask.op = "start_all"
    /\ LET name == ServerOrder[bridgeTask.idx] IN
       /\ IF ok
          THEN /\ is_running' = [is_running EXCEPT ![name] = TRUE]
               /\ server_status' = [server_status EXCEPT
                      ![name].status = "running", ![name].last_ping = "set"]
          ELSE /\ server_status' = [server_status EXCEPT
                      ![name].status = "error",
                      ![name].error_message = "start failed"]
               /\ UNCHANGED is_running
       /\ bridgeTask' =
              [op |-> IF bridgeTask.idx = Len(ServerOrder)
                      THEN "idle" ELSE "start_all",
               idx |-> IF bridgeTask.idx = Len(ServerOrder)
                       THEN 1 ELSE bridgeTask.idx + 1,
               raised |-> IF ok THEN bridgeTask.raised
                          ELSE bridgeTask.raised \cup {name}]
    /\ UNCHANGED <<initialization_complete, servers, lastDispatch,
                   nonBridgeVars>>

\* MCPBridge.shutdown: entry into the loop over self.servers.
BridgeShutdown ==
    /\ bridgeTask.op = "idle"
    /\ servers # {}
    /\ bridgeTask' = [op |-> "shutdown", idx |-> 1, raised |-> {}]
    /\ UNCHANGED <<initialization_complete, servers, server_status,
                   is_running, lastDispatch, nonBridgeVars>>

\* One iteration of the shutdown loop: await server.shutdown().
ShutdownServerStep ==
    /\ bridgeTask.op = "shutdown"
    /\ LET name == ServerOrder[bridgeTask.idx] IN
       /\ is_running' = [is_running EXCEPT ![name] = FALSE]
       /\ server_status' = [server_status EXCEPT ![name].status = "stopped"]
    /\ bridgeTask' = IF bridgeTask.idx = Cardinality(servers)
                     THEN [op |-> "idle", idx |-> 1, raised |-> {}]
                     ELSE [bridgeTask EXCEPT !.idx = @ + 1]
    /\ UNCHANGED <<initialization_complete, servers, lastDispatch,
                   nonBridgeVars>>

\* MCPBridge.get_server_status: ping the tool, record the outcome.
GetServerStatus(name) ==
    /\ server_status[name].status # None
    /\ IF name \in servers
       THEN IF is_running[name]
            THEN server_status' = [server_status EXCEPT ![name].last_ping = "set"]
            ELSE server_status' = [server_status EXCEPT
                     ![name].status = "error",
                     ![name].error_message = "not running"]
       ELSE UNCHANGED server_status
    /\ UNCHANGED <<initialization_complete, servers, is_running, bridgeTask,
                   lastDispatch, nonBridgeVars>>

\* MCPBridge.execute_command(server_name, command, params), with params that
\* bind to the method's signature; the method returns or raises.
ExecuteCommand(name, command) ==
    /\ IF ~ServerAvailable(name)
       THEN /\ lastDispatch' = [server |-> name, command |-> command,
                                status |-> None, invoked |-> FALSE,
                                outcome |-> "RuntimeError"]
            /\ UNCHANGED is_running
       ELSE IF ~CommandAccepted(name, command)
       THEN /\ lastDispatch' = [server |-> name, command |-> command,
                                status |-> server_status[name].status,
                                invoked |-> FALSE,
                                outcome |-> "AttributeError"]
            /\ UNCHANGED is_running
       ELSE /\ is_running' = ToolEffect(name, command)
            /\ \E res \in {"result", "ToolError"} :
                 lastDispatch' = [server |-> name, command |-> command,
                                  status |-> server_status[name].status,
                                  invoked |-> TRUE, outcome |-> res]
    /\ UNCHANGED <<initialization_complete, servers, server_status, bridgeTask,
                   nonBridgeVars>>

BridgeNext ==
    \/ InitializeStep
    \/ StartAllServers
    \/ \E ok \in BOOLEAN : StartServerStep(ok)
    \/ BridgeShutdown
    \/ ShutdownServerStep
    \/ \E n \in ServerNames : GetServerStatus(n)
    \/ \E n \in RequestedServers, c \in Commands : ExecuteCommand(n, c)

\* Statuses of a registered tool other than running.
NotRunningStatuses == {"initialized", "stopped", "error"}

\* C1: a dispatch to a tool whose status is initialized, stopped or error
\* never invokes a method of the tool.
C1_DispatchRefusedUnlessRunning ==
    lastDispatch.status \in NotRunningStatuses => ~lastDispatch.invoked

\* C2: a dispatch invokes the tool only for a command in the tool's
\* declared capability set; lifecycle methods are never executed by dispatch.
C2_DispatchOnlyDeclaredCapabilities ==
    lastDispatch.invoked =>
        lastDispatch.command \in Capabilities(lastDispatch.server)

\* A start_all in which the first tool's start raised has completed, with
\* the second tool running.
C15_Witness_FailureIsolated ==
    /\ bridgeTask.op = "idle"
    /\ bridgeTask.raised = {ServerOrder[1]}
    /\ server_status[ServerOrder[1]].status = "error"
    /\ server_status[ServerOrder[2]].status = "running"

\* C15: in every iteration of start_all the tool whose start raised gets
\* status error with an error message, the tool whose start returned gets
\* status running, no other tool's status changes, and the loop goes on to
\* the next tool (or ends after the last) without raising.
C15_StartAllIsolatesFailures ==
    [][(bridgeTask.op = "start_all" /\ bridgeTask' # bridgeTask) =>
          LET name == ServerOrder[bridgeTask.idx] IN
          /\ IF name \in bridgeTask'.raised
             THEN /\ server_status'[name].status = "error"
                  /\ server_status'[name].error_message # None
             ELSE server_status'[name].status = "running"
          /\ \A other \in ServerNames \ {name} :
                 server_status'[other] = server_status[other]
          /\ IF bridgeTask.idx < Len(ServerOrder)
             THEN /\ bridgeTask'.op = "start_all"
                  /\ bridgeTask'.idx = bridgeTask.idx + 1
             ELSE bridgeTask'.op = "idle"]_vars

\* C40: a status query changes the lifecycle status of a tool in one case
\* only, from running to error (the ping of a running tool failed); a tool
\* that is initialized or stopped has the same status after the query.
C40_StatusQueryKeepsLifecycleStatus ==
    [][\A n \in ServerNames :
          (GetServerStatus(n)
           /\ server_status'[n].status # server_status[n].status)
              => /\ server_status[n].status = "running"
                 /\ server_status'[n].status = "error"]_vars

(***************************************************************************)
(*                        REQUEST ENTRY POINTS                             *)
(***************************************************************************)

\* What a request carries as its Authorization header.
Credentials == {"none", "malformed", "bad_signature", "expired", "valid"}

\* REST tool endpoints declared with Depends(get_current_user).
ProtectedRest == {"secure:/document/generate", "secure:/email/send",
                  "secure:/search/web", "secure:/ai/process"}

\* REST tool endpoints of JarvisLiveAPI.setup_routes, declared without it.
OpenRest == {"main:/ai/process", "main:/voice/process"}

\* Message types the duplex handler processes.
DuplexTypes == {"ws:audio", "ws:ai_request", "ws:mcp_command"}

\* The tool operation each entry point runs.
ToolOpOf(entry) ==
    CASE entry = "secure:/document/generate" -> "document"
      [] entry = "secure:/email/send"        -> "email"
      [] entry = "secure:/search/web"        -> "search"
      [] entry \in {"secure:/ai/process", "main:/ai/process",
                    "ws:ai_request"}         -> "ai"
      [] entry \in {"main:/voice/process", "ws:audio"} -> "voice"
      [] OTHER                               -> "dispatch"

\* JWTAuth.verify_token: claims for a valid token, 401 otherwise.
VerifyToken(cred) ==
    CASE cred = "valid"   -> "claims"
      [] cred = "expired" -> "401 Token has expired"
      [] OTHER            -> "401 Invalid authentication credentials"

\* get_current_user: HTTPBearer rejects a missing header, then verify_token.
GetCurrentUser(cred) ==
    IF cred = "none" THEN "403 Not authenticated" ELSE VerifyToken(cred)

\* Whether the duplex handler admits a message for processing.
DuplexAdmits(cred) == TRUE

\* A handler of main_secure.py: the dependency runs before the body.
ProtectedRestRequest(entry, cred) ==
    /\ entry \in ProtectedRest
    /\ IF GetCurrentUser(cred) = "claims"
       THEN /\ toolOps' = toolOps \cup
                   {[entry |-> entry, op |-> ToolOpOf(entry), verified |-> TRUE]}
            /\ lastResponse' = [entry |-> entry, cred |-> cred, status |-> "200"]
       ELSE /\ UNCHANGED toolOps
            /\ lastResponse' = [entry |-> entry, cred |-> cred,
                                status |-> GetCurrentUser(cred)]
    /\ UNCHANGED nonGatewayVars

\* A REST handler of main.py: no dependency, the body runs.
OpenRestRequest(entry, cred) ==
    /\ entry \in OpenRest
    /\ toolOps' = toolOps \cup
           {[entry |-> entry, op |-> ToolOpOf(entry), verified |-> FALSE]}
    /\ lastResponse' = [entry |-> entry, cred |-> cred, status |-> "200"]
    /\ UNCHANGED nonGatewayVars

\* One iteration of websocket_endpoint's loop for a message of a known type.
DuplexMessage(entry, cred) ==
    /\ entry \in DuplexTypes
    /\ IF DuplexAdmits(cred)
       THEN /\ toolOps' = toolOps \cup
                   {[entry |-> entry, op |-> ToolOpOf(entry), verified |-> FALSE]}
            /\ lastResponse' = [entry |-> entry, cred |-> cred,
                                status |-> "response"]
       ELSE /\ UNCHANGED toolOps
            /\ lastResponse' = [entry |-> entry, cred |-> cred,
                                status |-> "error"]
    /\ UNCHANGED nonGatewayVars

GatewayNext ==
    \/ \E e \in ProtectedRest, c \in Credentials : ProtectedRestRequest(e, c)
    \/ \E e \in OpenRest, c \in Credentials : OpenRestRequest(e, c)
    \/ \E e \in DuplexTypes, c \in Credentials : DuplexMessage(e, c)

\* C3: every tool operation executed was requested with a bearer token that
\* passed verification, on the REST endpoints and on the duplex endpoint.
C3_ToolOpsRequireVerifiedBearer ==
    \A o \in toolOps : o.verified

(***************************************************************************)
(*                           CONTEXT STORE                                 *)
(***************************************************************************)

\* Number of concurrent update_context_interaction calls the model runs.
MaxAppends == 2

\* ConversationContext.add_interaction keeps the last 20 interactions.
MaxHistory == 20

\* ContextManager.max_local_cache_size
max_local_cache_size == 100

\* ConversationContext.is_context_expired default timeout (30 minutes), in seconds.
ContextTimeout == 1800

\* The (user, session) pairs of the model; ids are strings (character tuples).
CtxUsers == {<<"u">>}
CtxSessions == {<<"s">>}
AppendTasks == 1..MaxAppends

\* Key of the local cache: f"{user_id}_{session_id}".
LocalKey(u, s) == u \o <<"_">> \o s

\* ContextManager._get_context_key: f"context:{user_id}:{session_id}".
RedisKey(u, s) == <<"context:">> \o u \o <<":">> \o s

\* ConversationContext(user_id=..., session_id=...) as constructed.
NewContext(u, s) ==
    [user_id |-> u, session_id |-> s, history |-> <<>>, ts |-> now]

\* ConversationContext.is_context_expired
IsContextExpired(c) == now - c.ts > ContextTimeout

\* add_interaction without the trimming of the list.
AddInteractionUntrimmed(history, item) == Append(history, item)

\* ConversationContext.add_interaction
AddInteraction(history, item) ==
    LET h == Append(history, item) IN
    IF Len(h) > MaxHistory THEN SubSeq(h, Len(h) - MaxHistory + 1, Len(h)) ELSE h

\* The keys _manage_cache_size removes: the oldest fifth by context_timestamp.
RECURSIVE OldestKeys(_, _, _)
OldestKeys(cache, hp, n) ==
    IF n = 0 \/ DOMAIN cache = {} THEN {}
    ELSE LET k == CHOOSE k \in DOMAIN cache :
                    \A j \in DOMAIN cache : hp[cache[k]].ts <= hp[cache[j]].ts
             rest == [j \in DOMAIN cache \ {k} |-> cache[j]]
         IN {k} \cup OldestKeys(rest, hp, n - 1)

\* ContextManager._manage_cache_size
ManageCacheSize(cache, hp) ==
    IF Cardinality(DOMAIN cache) > max_local_cache_size
    THEN LET gone == OldestKeys(cache, hp, Cardinality(DOMAIN cache) \div 5)
         IN [k \in DOMAIN cache \ gone |-> cache[k]]
    ELSE cache

\* self.local_cache[context_key] = context, then _manage_cache_size().
CachePut(cache, hp, key, obj) ==
    ManageCacheSize([k \in DOMAIN cache \cup {key} |->
                        IF k = key THEN obj ELSE cache[k]], hp)

\* redis setex of a pickled context under its key.
RedisPut(store, key, data) ==
    [k \in DOMAIN store \cup {key} |-> IF k = key THEN data ELSE store[k]]

IdleTask == [pc |-> "idle", user |-> None, session |-> None, obj |-> 0,
             snap |-> None]

ContextInit ==
    /\ heap = <<>>
    /\ local_cache = <<>>
    /\ redis_ctx = <<>>
    /\ redis_sessions = {}
    /\ ctxTask = [t \in AppendTasks |-> IdleTask]

\* update_context_interaction from `context = await get_context(...)` returning
\* object o up to the first await of save_context: add_interaction, timestamp,
\* local_cache[key] = context, pickle.dumps(context).
MutateAndStage(t, u, s, hp, cache, o) ==
    LET hp2 == [hp EXCEPT ![o].history = AddInteraction(@, t), ![o].ts = now] IN
    /\ heap' = hp2
    /\ local_cache' = CachePut(cache, hp2, LocalKey(u, s), o)
    /\ ctxTask' = [ctxTask EXCEPT ![t] =
           [pc |-> "setex", user |-> u, session |-> s, obj |-> o,
            snap |-> hp2[o]]]

\* update_context_interaction is called: get_context looks in the local cache.
\* A hit returns the cached object itself; a miss awaits the shared KV.
AppendStart(t, u, s) ==
    /\ ctxTask[t].pc = "idle"
    /\ LET key == LocalKey(u, s) IN
       IF key \in DOMAIN local_cache /\ ~IsContextExpired(heap[local_cache[key]])
       THEN /\ MutateAndStage(t, u, s, heap, local_cache, local_cache[key])
            /\ UNCHANGED <<redis_ctx, redis_sessions>>
       ELSE /\ local_cache' = [k \in DOMAIN local_cache \ {key} |-> local_cache[k]]
            /\ ctxTask' = [ctxTask EXCEPT ![t] =
                   [pc |-> "redis_get", user |-> u, session |-> s, obj |-> 0,
                    snap |-> None]]
            /\ UNCHANGED <<heap, redis_ctx, redis_sessions>>
    /\ UNCHANGED nonContextVars

\* `await self.redis_client.get(redis_key)` returns (or raises, which is logged).
\* Data: pickle.loads builds a new object, which is cached and returned.
\* No data: a new context is created and save_context starts.
AppendRedisGet(t, ok) ==
    /\ ctxTask[t].pc = "redis_get"
    /\ LET u == ctxTask[t].user
           s == ctxTask[t].session
           o == Len(heap) + 1
       IN IF ok /\ RedisKey(u, s) \in DOMAIN redis_ctx
          THEN LET hp == Append(heap, redis_ctx[RedisKey(u, s)]) IN
               MutateAndStage(t, u, s, hp,
                              CachePut(local_cache, hp, LocalKey(u, s), o), o)
          ELSE LET hp == Append(heap, NewContext(u, s)) IN
               /\ heap' = hp
               /\ local_cache' = CachePut(local_cache, hp, LocalKey(u, s), o)
               /\ ctxTask' = [ctxTask EXCEPT ![t] =
                      [pc |-> "create_setex", user |-> u, session |-> s,
                       obj |-> o, snap |-> hp[o]]]
    /\ UNCHANGED <<redis_ctx, redis_sessions, nonContextVars>>

\* save_context of the newly created context: setex, then sadd and expire.
\* A failing operation is logged and ends save_context.  When save_context
\* returns, get_context returns and the interaction is added.
AppendCreateSetex(t, ok) ==
    /\ ctxTask[t].pc = "create_setex"
    /\ LET u == ctxTask[t].user
           s == ctxTask[t].session
       IN IF ok
          THEN /\ redis_ctx' = RedisPut(redis_ctx, RedisKey(u, s), ctxTask[t].snap)
               /\ ctxTask' = [ctxTask EXCEPT ![t].pc = "create_sadd"]
               /\ UNCHANGED <<heap, local_cache>>
          ELSE /\ MutateAndStage(t, u, s, heap, local_cache, ctxTask[t].obj)
               /\ UNCHANGED redis_ctx
    /\ UNCHANGED <<redis_sessions, nonContextVars>>

AppendCreateSadd(t, ok) ==
    /\ ctxTask[t].pc = "create_sadd"
    /\ redis_sessions' =
           IF ok THEN redis_sessions \cup
                      {<<ctxTask[t].user, ctxTask[t].session>>}
           ELSE redis_sessions
    /\ MutateAndStage(t, ctxTask[t].user, ctxTask[t].session, heap,
                      local_cache, ctxTask[t].obj)
    /\ UNCHANGED <<redis_ctx, nonContextVars>>

\* save_context of the updated context: setex of the pickled snapshot.
AppendSetex(t, ok) ==
    /\ ctxTask[t].pc = "setex"
    /\ IF ok
       THEN /\ redis_ctx' = RedisPut(redis_ctx,
                   RedisKey(ctxTask[t].user, ctxTask[t].session), ctxTask[t].snap)
            /\ ctxTask' = [ctxTask EXCEPT ![t].pc = "sadd"]
       ELSE /\ ctxTask' = [ctxTask EXCEPT ![t].pc = "done"]
            /\ UNCHANGED redis_ctx
    /\ UNCHANGED <<heap, local_cache, redis_sessions, nonContextVars>>

\* sadd and expire of the user's session set (or their failure, which is
\* logged); update_context_interaction returns.
AppendSadd(t, ok) ==
    /\ ctxTask[t].pc = "sadd"
    /\ redis_sessions' =
           IF ok THEN redis_sessions \cup
                      {<<ctxTask[t].user, ctxTask[t].session>>}
           ELSE redis_sessions
    /\ ctxTask' = [ctxTask EXCEPT ![t].pc = "done"]
    /\ UNCHANGED <<heap, local_cache, redis_ctx, nonContextVars>>

ContextNext ==
    \/ \E t \in AppendTasks, u \in CtxUsers, s \in CtxSessions : AppendStart(t, u, s)
    \/ \E t \in AppendTasks, ok \in BOOLEAN : AppendRedisGet(t, ok)
    \/ \E t \in AppendTasks, ok \in BOOLEAN : AppendCreateSetex(t, ok)
    \/ \E t \in AppendTasks, ok \in BOOLEAN : AppendCreateSadd(t, ok)
    \/ \E t \in AppendTasks, ok \in BOOLEAN : AppendSetex(t, ok)
    \/ \E t \in AppendTasks, ok \in BOOLEAN : AppendSadd(t, ok)

\* The history get_context(u, s) would return now.
StoredHistory(u, s) ==
    IF LocalKey(u, s) \in DOMAIN local_cache
    THEN heap[local_cache[LocalKey(u, s)]].history
    ELSE IF RedisKey(u, s) \in DOMAIN redis_ctx
    THEN redis_ctx[RedisKey(u, s)].history
    ELSE <<>>

InHistory(t, h) == \E i \in 1..Len(h) : h[i] = t

\* C4: once an append_interaction call has returned, the stored context of
\* its (user, session) contains its interaction, whatever other appends for
\* the same pair ran concurrently: no append is lost.
C4_NoAppendLost ==
    \A t \in AppendTasks :
        ctxTask[t].pc = "done" =>
            InHistory(t, StoredHistory(ctxTask[t].user, ctxTask[t].session))

\* The idle periods that pass between requests: exactly the expiry time, and
\* one second more.
IdleSteps == {ContextTimeout, ContextTimeout + 1}

\* No request arrives for the length of an idle period.
ContextIdle(step) ==
    /\ now < ContextTimeout
    /\ now' = now + step
    /\ UNCHANGED <<ws, active_connections, connection_groups, cleanup_task,
                   sendTask, issued, nonSessionVars>>

ExpiryNext ==
    \/ ContextNext
    \/ \E step \in IdleSteps : ContextIdle(step)

\* Task t is handed an existing context by get_context in this step: the
\* cached object, or the one loaded from the shared KV.
GetsStoredContext(t) ==
    /\ ctxTask[t].pc \in {"idle", "redis_get"}
    /\ ctxTask'[t].pc = "setex"

\* The context get_context hands to task t in this step, as it was stored.
ReturnedContext(t) ==
    IF ctxTask[t].pc = "idle"
    THEN heap[local_cache[LocalKey(ctxTask'[t].user, ctxTask'[t].session)]]
    ELSE redis_ctx[RedisKey(ctxTask[t].user, ctxTask[t].session)]

\* C22: the context get_context returns, from the local map or from the shared
\* KV, was last active at most 30 minutes ago.
C22_GetNeverReturnsExpired ==
    [][\A t \in AppendTasks :
          GetsStoredContext(t) => ~IsContextExpired(ReturnedContext(t))]_vars

\* Ids of two users and two sessions, one of each with the character "_":
\* the pairs ("a", "b_c") and ("a_b", "c") are different pairs.
IsoUsers == {<<"a">>, <<"a", "_", "b">>}
IsoSessions == {<<"c">>, <<"b", "_", "c">>}

\* key.startswith(prefix)
StartsWith(key, prefix) ==
    Len(key) >= Len(prefix) /\ SubSeq(key, 1, Len(prefix)) = prefix

\* key.split("_", 1)[1]: what follows the first "_" of the key.
AfterFirstUnderscore(key) ==
    LET i == CHOOSE i \in 1..Len(key) :
                 key[i] = "_" /\ \A j \in 1..(i - 1) : key[j] # "_"
    IN SubSeq(key, i + 1, Len(key))

\* ContextManager.get_user_sessions; kv is the outcome of the shared-KV read.
GetUserSessions(u, kv) ==
    IF kv = "ok"
    THEN {p[2] : p \in {q \in redis_sessions : q[1] = u}}
    ELSE {AfterFirstUnderscore(key) :
             key \in {k \in DOMAIN local_cache : StartsWith(k, u \o <<"_">>)}}

\* ContextManager.clear_user_contexts: clear_context for every session that
\* get_user_sessions lists; a failure of the shared KV is logged.
ClearUserContexts(u, kv) ==
    /\ LET sessions == GetUserSessions(u, kv)
           local_keys == {LocalKey(u, s) : s \in sessions}
           redis_keys == {RedisKey(u, s) : s \in sessions}
       IN /\ local_cache' = [k \in DOMAIN local_cache \ local_keys |->
                                local_cache[k]]
          /\ redis_ctx' = IF kv = "ok"
                          THEN [k \in DOMAIN redis_ctx \ redis_keys |->
                                   redis_ctx[k]]
                          ELSE redis_ctx
          /\ redis_sessions' = IF kv = "ok"
                               THEN redis_sessions \ {<<u, s>> : s \in sessions}
                               ELSE redis_sessions
    /\ UNCHANGED <<heap, ctxTask, nonContextVars>>

\* Appends and clear_user_contexts for ids with and without "_".
IsolationNext ==
    \/ \E t \in AppendTasks, u \in IsoUsers, s \in IsoSessions :
          AppendStart(t, u, s)
    \/ \E t \in AppendTasks, ok \in BOOLEAN : AppendRedisGet(t, ok)
    \/ \E t \in AppendTasks, ok \in BOOLEAN : AppendCreateSetex(t, ok)
    \/ \E t \in AppendTasks, ok \in BOOLEAN : AppendCreateSadd(t, ok)
    \/ \E t \in AppendTasks, ok \in BOOLEAN : AppendSetex(t, ok)
    \/ \E t \in AppendTasks, ok \in BOOLEAN : AppendSadd(t, ok)
    \/ \E u \in IsoUsers, kv \in {"ok", "fail"} : ClearUserContexts(u, kv)

\* No append is in flight.
ContextQuiescent == \A t \in AppendTasks : ctxTask[t].pc \in {"idle", "done"}

\* C39: the context an operation on (user, session) is handed, reads and
\* changes is the context of that user and that session, and
\* clear_user_contexts(u) removes from the local map the contexts of u, all
\* of them and no context of another user, whatever characters the ids hold.
C39_ContextsIsolatedPerPair ==
    /\ [](\A t \in AppendTasks :
              ctxTask[t].pc \in {"setex", "sadd", "done"} =>
                  /\ heap[ctxTask[t].obj].user_id = ctxTask[t].user
                  /\ heap[ctxTask[t].obj].session_id = ctxTask[t].session)
    /\ [][\A u \in IsoUsers, kv \in {"ok", "fail"} :
             (ContextQuiescent /\ ClearUserContexts(u, kv)) =>
                 DOMAIN local_cache' =
                     {k \in DOMAIN local_cache :
                         heap[local_cache[k]].user_id # u}]_vars

(***************************************************************************)
(*                          WORKFLOW ENGINE                                *)
(***************************************************************************)

\* Largest number of steps of a workflow in the model (the program caps
\* _estimate_workflow_steps at 10; templates have 5).
MaxWorkflowSteps == 3

\* Number of continue_workflow calls that can be in flight at once.
MaxContinueCalls == 2

\* _detect_multi_step_workflow creates no workflow for a single step.
WorkflowSizes == 2..MaxWorkflowSteps
ContinueCalls == 1..MaxContinueCalls

\* Workflow ids (uuid4 strings in the program).
WorkflowIds == {1}

\* WorkflowStatus values a finished step can have.
TerminalStatuses == {"completed", "failed", "cancelled"}

IdleCall == [pc |-> "idle", wf |-> 0, step |-> 0]

\* No process_advanced_command call was made yet.
NoProcess == [calls |-> 0, text |-> None, error |-> FALSE, workflow |-> <<>>,
              estimated_steps |-> 0, workflow_template |-> <<>>]

\* CommandStep.max_retries
max_retries == 3

\* A MultiStepWorkflow of CommandSteps with the dataclass defaults, one step
\* for each entry of parameters (the step's parameters: name -> parameter).
NewWorkflow(parameters) ==
    [steps |-> [i \in DOMAIN parameters |-> "pending"],
     step_parameters |-> parameters,
     retry_count |-> [i \in DOMAIN parameters |-> 0],
     current_step |-> 0, status |-> "pending", completion_percentage |-> 0]

WorkflowInit ==
    /\ active_workflows = <<>>
    /\ wfCall = [c \in ContinueCalls |-> IdleCall]
    /\ wfExec = <<>>
    /\ wfFailed = <<>>
    /\ processing_stats = [total_commands |-> 0, multi_step_commands |-> 0,
                           successful_workflows |-> 0]
    /\ lastProcess = NoProcess

\* MultiStepWorkflow.get_current_step: the 0-based index of the current step
\* as a one-element sequence, or the empty sequence for None.
GetCurrentStep(w) ==
    IF 0 <= w.current_step /\ w.current_step < Len(w.steps)
    THEN <<w.current_step>> ELSE <<>>

\* MultiStepWorkflow.get_completed_steps (as 0-based indices).
GetCompletedSteps(w) ==
    {i \in 0..(Len(w.steps) - 1) : w.steps[i + 1] = "completed"}

\* MultiStepWorkflow.update_progress: completion_percentage.
UpdateProgress(w) ==
    [w EXCEPT !.completion_percentage =
        IF Len(w.steps) > 0
        THEN (Cardinality(GetCompletedSteps(w)) * 100) \div Len(w.steps)
        ELSE 0]

\* self.active_workflows[workflow_id] = workflow, then _execute_workflow:
\* status pending, update_progress.
RegisterWorkflow(id, workflow) ==
    /\ active_workflows' = [j \in DOMAIN active_workflows \cup {id} |->
           IF j = id
           THEN UpdateProgress([workflow EXCEPT !.status = "pending"])
           ELSE active_workflows[j]]
    /\ wfExec' = [j \in DOMAIN wfExec \cup {id} |->
           IF j = id THEN [i \in DOMAIN workflow.steps |-> 0] ELSE wfExec[j]]
    /\ wfFailed' = [j \in DOMAIN wfFailed \cup {id} |->
           IF j = id THEN [i \in DOMAIN workflow.steps |-> 0] ELSE wfFailed[j]]

\* _detect_multi_step_workflow, called with an intent result of n estimated
\* steps and no parameters, registers a workflow of n pending steps and
\* _execute_workflow prepares it (status pending, progress updated).
CreateWorkflow(id, n) ==
    /\ id \notin DOMAIN active_workflows
    /\ RegisterWorkflow(id, NewWorkflow([i \in 1..n |-> <<>>]))
    /\ UNCHANGED <<wfCall, processing_stats, lastProcess, nonWorkflowVars>>

\* continue_workflow up to `await asyncio.sleep(0.1)`: the current step is
\* looked up and marked running.  For an unknown active_workflows, or one with no
\* current step, the call returns an error and changes nothing.
ContinueStart(c, id) ==
    /\ wfCall[c].pc = "idle"
    /\ IF id \in DOMAIN active_workflows
          /\ GetCurrentStep(active_workflows[id]) # <<>>
       THEN LET i == GetCurrentStep(active_workflows[id])[1] IN
            /\ active_workflows' =
                   [active_workflows EXCEPT ![id].steps[i + 1] = "running"]
            /\ wfCall' = [wfCall EXCEPT ![c] =
                   [pc |-> "sleeping", wf |-> id, step |-> i]]
            /\ wfExec' = [wfExec EXCEPT ![id][i + 1] = @ + 1]
       ELSE /\ wfCall' = [wfCall EXCEPT ![c] =
                   [pc |-> "error", wf |-> id, step |-> 0]]
            /\ UNCHANGED <<active_workflows, wfExec>>
    /\ UNCHANGED <<wfFailed, processing_stats, lastProcess, nonWorkflowVars>>

\* continue_workflow after the sleep: the step captured before the sleep is
\* marked completed, current_step is incremented, progress is updated and
\* the workflow is completed, and counted in successful_workflows, when
\* current_step has reached len(steps).
ContinueFinish(c) ==
    /\ wfCall[c].pc = "sleeping"
    /\ LET id == wfCall[c].wf
           w1 == [active_workflows[id] EXCEPT
                      !.steps[wfCall[c].step + 1] = "completed",
                      !.current_step = @ + 1]
           w2 == UpdateProgress(w1)
       IN IF w2.current_step >= Len(w2.steps)
          THEN /\ active_workflows' = [active_workflows EXCEPT ![id] =
                      [w2 EXCEPT !.status = "completed"]]
               /\ processing_stats' = [processing_stats EXCEPT
                      !.successful_workflows = @ + 1]
          ELSE /\ active_workflows' = [active_workflows EXCEPT ![id] = w2]
               /\ UNCHANGED processing_stats
    /\ wfCall' = [wfCall EXCEPT ![c].pc = "returned"]
    /\ UNCHANGED <<wfExec, wfFailed, lastProcess, nonWorkflowVars>>

\* The caller takes the result of continue_workflow; the slot is free again.
ContinueReturn(c) ==
    /\ wfCall[c].pc \in {"returned", "error"}
    /\ wfCall' = [wfCall EXCEPT ![c] = IdleCall]
    /\ UNCHANGED <<active_workflows, wfExec, wfFailed, processing_stats,
                   lastProcess, nonWorkflowVars>>

WorkflowNext ==
    \/ \E id \in WorkflowIds, n \in WorkflowSizes : CreateWorkflow(id, n)
    \/ \E c \in ContinueCalls, id \in WorkflowIds : ContinueStart(c, id)
    \/ \E c \in ContinueCalls : ContinueFinish(c)
    \/ \E c \in ContinueCalls : ContinueReturn(c)

RunningSteps(w) == {i \in 1..Len(w.steps) : w.steps[i] = "running"}

MaxTransports == 2

\* Messages the server issues in one run.
MaxMessages == 4

\* Broadcast / group sends that can be in flight at once.
MaxSendTasks == 1

Clients == {"c1", "c2"}
Groups == {"g"}
SendTasks == 1..MaxSendTasks
TransportIds == 1..MaxTransports
Transports == DOMAIN ws

\* The position of client c in the registry (a dict, kept in insertion
\* order), or 0 when c is not registered.
ConnIndex(conns, c) ==
    IF \E i \in 1..Len(conns) : conns[i].client_id = c
    THEN CHOOSE i \in 1..Len(conns) : conns[i].client_id = c
    ELSE 0

Registered(conns, c) == ConnIndex(conns, c) # 0

\* list(self.active_connections.keys())
ConnKeys(conns) == [i \in 1..Len(conns) |-> conns[i].client_id]

RECURSIVE Without(_, _)
Without(seq, x) ==
    IF seq = <<>> THEN <<>>
    ELSE IF Head(seq) = x THEN Without(Tail(seq), x)
    ELSE <<Head(seq)>> \o Without(Tail(seq), x)

\* WebSocketConnection(websocket, client_id)
NewConnection(t, c) ==
    [client_id |-> c, ws |-> t, last_activity |-> now, message_count |-> 0]

\* self.active_connections[client_id] = connection: an existing key keeps its
\* place and gets the new value, a new key goes to the end.
RegistryPut(conns, conn) ==
    IF Registered(conns, conn.client_id)
    THEN [conns EXCEPT ![ConnIndex(conns, conn.client_id)] = conn]
    ELSE Append(conns, conn)

\* The manager's state as one value: transports, registry, groups.
Manager == [ws |-> ws, conns |-> active_connections, groups |-> connection_groups]

\* WebSocketManager.disconnect: the entry is deleted and the client leaves
\* every group.  The transport is not closed.
Disconnect(m, c) ==
    IF Registered(m.conns, c)
    THEN [m EXCEPT !.conns = Without(m.conns, m.conns[ConnIndex(m.conns, c)]),
                   !.groups = [g \in DOMAIN m.groups |-> Without(m.groups[g], c)]]
    ELSE m

\* WebSocketManager.send_personal_message with WebSocketConnection.send_message:
\* False for an unregistered client; otherwise the message is handed to the
\* registered connection's transport.  A transport the peer has closed
\* raises, and the client is disconnected.
SendPersonalMessage(m, msg, c) ==
    IF ~Registered(m.conns, c) THEN [m |-> m, ok |-> FALSE]
    ELSE LET i == ConnIndex(m.conns, c)
             t == m.conns[i].ws
         IN IF m.ws[t].state = "accepted"
            THEN [m |-> [m EXCEPT !.ws[t].delivered = Append(@, msg),
                                  !.conns[i].last_activity = now,
                                  !.conns[i].message_count = @ + 1],
                  ok |-> TRUE]
            ELSE [m |-> Disconnect(m, c), ok |-> FALSE]

\* broadcast_message with a loop that a failed send ends.
RECURSIVE SendLoopStopsAtFailure(_, _, _)
SendLoopStopsAtFailure(m, msg, rcpts) ==
    IF rcpts = <<>>
    THEN [m |-> m, res |-> <<>>, rest |-> <<>>, ended |-> TRUE]
    ELSE LET r == SendPersonalMessage(m, msg, Head(rcpts))
         IN IF r.ok
            THEN [m |-> r.m, res |-> <<TRUE>>, rest |-> Tail(rcpts),
                  ended |-> FALSE]
            ELSE [m |-> r.m, res |-> <<FALSE>>, rest |-> <<>>, ended |-> TRUE]

\* The loop of broadcast_message / send_to_group from its current position up
\* to its next suspension: a send to an unregistered recipient returns False
\* without suspending, the first registered one is sent to.  res lists the
\* values send_personal_message returned, in order.
RECURSIVE SendLoop(_, _, _)
SendLoop(m, msg, rcpts) ==
    IF rcpts = <<>>
    THEN [m |-> m, res |-> <<>>, rest |-> <<>>, ended |-> TRUE]
    ELSE IF ~Registered(m.conns, Head(rcpts))
    THEN LET r == SendLoop(m, msg, Tail(rcpts))
         IN [r EXCEPT !.res = <<FALSE>> \o @]
    ELSE LET r == SendPersonalMessage(m, msg, Head(rcpts))
         IN [m |-> r.m, res |-> <<r.ok>>, rest |-> Tail(rcpts), ended |-> FALSE]

\* The number of True values in a sequence of send results.
RECURSIVE CountTrue(_)
CountTrue(res) ==
    IF res = <<>> THEN 0
    ELSE (IF Head(res) THEN 1 ELSE 0) + CountTrue(Tail(res))

\* The recipients of a sequence that are not in the exclude list, in order.
RECURSIVE NotExcluded(_, _)
NotExcluded(rcpts, excl) ==
    IF rcpts = <<>> THEN <<>>
    ELSE IF Head(rcpts) \in excl THEN NotExcluded(Tail(rcpts), excl)
    ELSE <<Head(rcpts)>> \o NotExcluded(Tail(rcpts), excl)

SetManager(m) ==
    /\ ws' = m.ws
    /\ active_connections' = m.conns
    /\ connection_groups' = m.groups

IdleSend == [pc |-> "idle", msg |-> [seq |-> 0, type |-> None], targets |-> <<>>,
             excl |-> {}, rest |-> <<>>, results |-> <<>>, sent_count |-> 0]

SessionInit ==
    /\ ws = <<>>
    /\ active_connections = <<>>
    /\ connection_groups = <<>>
    /\ cleanup_task = <<>>
    /\ sendTask = [k \in SendTasks |-> IdleSend]
    /\ issued = 0
    /\ now = 0

\* A client opens a transport with client id c; websocket_endpoint calls
\* connect, which accepts it.
ConnectAccept(c) ==
    /\ Len(ws) < MaxTransports
    /\ ws' = Append(ws, [client_id |-> c, state |-> "accepted",
                         pc |-> "connecting", delivered |-> <<>>,
                         frames |-> 0, last_frame |-> None])
    /\ UNCHANGED <<active_connections, connection_groups, cleanup_task,
                   sendTask, issued, now, nonSessionVars>>

\* connect after accept: the connection object is stored under the client id
\* and the welcome message is sent; the handler then waits for messages.
ConnectRegister(t) ==
    /\ t \in Transports
    /\ ws[t].pc = "connecting"
    /\ issued < MaxMessages
    /\ LET c == ws[t].client_id
           m1 == [Manager EXCEPT !.conns = RegistryPut(@, NewConnection(t, c)),
                                 !.ws[t].pc = "receiving"]
           msg == [seq |-> issued + 1, type |-> "connection_established"]
       IN SetManager(SendPersonalMessage(m1, msg, c).m)
    /\ issued' = issued + 1
    /\ UNCHANGED <<cleanup_task, sendTask, now, nonSessionVars>>

\* connect after accept of a manager that has a redis_client: the connection
\* object is stored under the client id, and connect is suspended in
\* `await self._store_connection_in_redis(client_id, connection)`.
ConnectStore(t) ==
    /\ t \in Transports
    /\ ws[t].pc = "connecting"
    /\ SetManager([Manager EXCEPT
           !.conns = RegistryPut(@, NewConnection(t, ws[t].client_id)),
           !.ws[t].pc = "storing"])
    /\ UNCHANGED <<cleanup_task, sendTask, issued, now, nonSessionVars>>

\* The store in redis has returned (a failure of it is logged): connect sends
\* the welcome message to the client id; the handler then waits for messages.
ConnectWelcome(t) ==
    /\ t \in Transports
    /\ ws[t].pc = "storing"
    /\ issued < MaxMessages
    /\ LET msg == [seq |-> issued + 1, type |-> "connection_established"]
       IN SetManager(SendPersonalMessage([Manager EXCEPT !.ws[t].pc = "receiving"],
                                         msg, ws[t].client_id).m)
    /\ issued' = issued + 1
    /\ UNCHANGED <<cleanup_task, sendTask, now, nonSessionVars>>

\* The peer closes its transport.
ClientClose(t) ==
    /\ t \in Transports
    /\ ws[t].state = "accepted"
    /\ ws' = [ws EXCEPT ![t].state = "closed"]
    /\ UNCHANGED <<active_connections, connection_groups, cleanup_task,
                   sendTask, issued, now, nonSessionVars>>

\* websocket_endpoint: receive_json raises WebSocketDisconnect and the
\* handler calls disconnect(client_id).
HandlerDisconnect(t) ==
    /\ t \in Transports
    /\ ws[t].pc = "receiving"
    /\ ws[t].state = "closed"
    /\ SetManager(Disconnect([Manager EXCEPT !.ws[t].pc = "ended"],
                             ws[t].client_id))
    /\ UNCHANGED <<cleanup_task, sendTask, issued, now, nonSessionVars>>

\* Some task calls send_personal_message(message, c).
SendPersonal(c) ==
    /\ issued < MaxMessages
    /\ SetManager(SendPersonalMessage(Manager,
           [seq |-> issued + 1, type |-> "personal"], c).m)
    /\ issued' = issued + 1
    /\ UNCHANGED <<cleanup_task, sendTask, now, nonSessionVars>>

\* A broadcast or group send starts: the recipients are fixed and the loop
\* runs to its first suspension.
StartSend(k, type, rcpts, excl) ==
    /\ sendTask[k].pc = "idle"
    /\ issued < MaxMessages
    /\ LET msg == [seq |-> issued + 1, type |-> type]
           targets == NotExcluded(rcpts, excl)
           r == SendLoop(Manager, msg, targets)
       IN /\ SetManager(r.m)
          /\ sendTask' = [sendTask EXCEPT ![k] =
                 [pc |-> IF r.ended THEN "returned" ELSE "awaiting",
                  msg |-> msg, targets |-> targets, excl |-> excl,
                  rest |-> r.rest, results |-> r.res,
                  sent_count |-> CountTrue(r.res)]]
    /\ issued' = issued + 1
    /\ UNCHANGED <<cleanup_task, now, nonSessionVars>>

\* The exclude lists a caller of broadcast_message passes in the model.
ExcludeLists == {{}} \cup {{c} : c \in Clients}

\* broadcast_message(message, exclude_clients)
BroadcastMessage(k, excl) ==
    StartSend(k, "broadcast", ConnKeys(active_connections), excl)

\* send_to_group(group_name, message); a missing group returns 0.
SendToGroup(k, g) ==
    StartSend(k, "group",
              IF g \in DOMAIN connection_groups THEN connection_groups[g] ELSE <<>>,
              {})

\* The loop resumes after a send and runs to its next suspension or its end.
SendResume(k) ==
    /\ sendTask[k].pc = "awaiting"
    /\ LET r == SendLoop(Manager, sendTask[k].msg, sendTask[k].rest)
       IN /\ SetManager(r.m)
          /\ sendTask' = [sendTask EXCEPT ![k] =
                 [@ EXCEPT !.pc = IF r.ended THEN "returned" ELSE "awaiting",
                           !.rest = r.rest,
                           !.results = @ \o r.res,
                           !.sent_count = @ + CountTrue(r.res)]]
    /\ UNCHANGED <<cleanup_task, issued, now, nonSessionVars>>

\* The caller takes sent_count; the slot is free again.
SendReturn(k) ==
    /\ sendTask[k].pc = "returned"
    /\ sendTask' = [sendTask EXCEPT ![k] = IdleSend]
    /\ UNCHANGED <<ws, active_connections, connection_groups, cleanup_task,
                   issued, now, nonSessionVars>>

\* add_to_group(client_id, group_name)
AddToGroup(c, g) ==
    /\ Registered(active_connections, c)
    /\ LET members == IF g \in DOMAIN connection_groups
                      THEN connection_groups[g] ELSE <<>>
       IN connection_groups' =
              [h \in DOMAIN connection_groups \cup {g} |->
                  IF h # g THEN connection_groups[h]
                  ELSE IF \E i \in 1..Len(members) : members[i] = c
                  THEN members ELSE Append(members, c)]
    /\ UNCHANGED <<ws, active_connections, cleanup_task, sendTask, issued, now,
                   nonSessionVars>>

\* remove_from_group(client_id, group_name)
RemoveFromGroup(c, g) ==
    /\ g \in DOMAIN connection_groups
    /\ \E i \in 1..Len(connection_groups[g]) : connection_groups[g][i] = c
    /\ connection_groups' = [connection_groups EXCEPT ![g] = Without(@, c)]
    /\ UNCHANGED <<ws, active_connections, cleanup_task, sendTask, issued, now,
                   nonSessionVars>>

SessionNext ==
    \/ \E c \in Clients : ConnectAccept(c)
    \/ \E t \in TransportIds : ConnectRegister(t)
    \/ \E t \in TransportIds : ClientClose(t)
    \/ \E t \in TransportIds : HandlerDisconnect(t)
    \/ \E c \in Clients : SendPersonal(c)
    \/ \E k \in SendTasks, excl \in ExcludeLists : BroadcastMessage(k, excl)
    \/ \E k \in SendTasks, g \in Groups : SendToGroup(k, g)
    \/ \E k \in SendTasks : SendResume(k)
    \/ \E k \in SendTasks : SendReturn(k)
    \/ \E c \in Clients, g \in Groups : AddToGroup(c, g)
    \/ \E c \in Clients, g \in Groups : RemoveFromGroup(c, g)

\* The session multiplexer of a manager that has a redis_client.
SessionStoreNext ==
    \/ \E c \in Clients : ConnectAccept(c)
    \/ \E t \in TransportIds : ConnectStore(t)
    \/ \E t \in TransportIds : ConnectWelcome(t)
    \/ \E t \in TransportIds : ClientClose(t)
    \/ \E t \in TransportIds : HandlerDisconnect(t)
    \/ \E c \in Clients : SendPersonal(c)
    \/ \E k \in SendTasks, excl \in ExcludeLists : BroadcastMessage(k, excl)
    \/ \E k \in SendTasks : SendResume(k)
    \/ \E k \in SendTasks : SendReturn(k)

\* The transports to which message msg has been delivered.
DeliveredTo(msg) ==
    {t \in Transports :
        \E i \in 1..Len(ws[t].delivered) : ws[t].delivered[i] = msg}

\* A broadcast with a failed send to one recipient followed by a successful
\* send to a later one has returned.
C13_Witness_FailureThenDelivery ==
    \E k \in SendTasks :
        /\ sendTask[k].pc = "returned"
        /\ sendTask[k].msg.type = "broadcast"
        /\ \E i, j \in 1..Len(sendTask[k].results) :
               i < j /\ ~sendTask[k].results[i] /\ sendTask[k].results[j]

\* C13: a broadcast attempts every session open at the call other than the
\* excluded ones, whatever the outcome of the earlier sends; nothing is
\* delivered to an excluded client; the count it returns is the number of
\* successful deliveries.
C13_BroadcastBestEffortCount ==
    \A k \in SendTasks :
        sendTask[k].msg.type = "broadcast" =>
            /\ Len(sendTask[k].results) + Len(sendTask[k].rest)
                   = Len(sendTask[k].targets)
            /\ sendTask[k].pc = "returned" => sendTask[k].rest = <<>>
            /\ sendTask[k].sent_count = CountTrue(sendTask[k].results)
            /\ sendTask[k].sent_count
                   = Cardinality(DeliveredTo(sendTask[k].msg))
            /\ \A t \in DeliveredTo(sendTask[k].msg) :
                   ws[t].client_id \notin sendTask[k].excl


\* The transports of client id c that connect has registered and that are
\* still open: accepted, not closed, their handler still serving them.
OpenTransports(c) ==
    {t \in Transports : /\ ws[t].client_id = c
                        /\ ws[t].state = "accepted"
                        /\ ws[t].pc = "receiving"}

\* C8: at every moment at most one open transport exists per client id, also
\* after connect is called with an id that is already registered.
C8_OneOpenTransportPerClient ==
    \A c \in Clients : Cardinality(OpenTransports(c)) <= 1

\* C9: on every transport the messages arrive in the order in which the
\* server issued the sends (personal, broadcast or group send calls, from
\* whatever task): issue numbers increase along the delivered sequence.
C9_DeliveredInIssueOrder ==
    \A t \in Transports :
        \A i, j \in 1..Len(ws[t].delivered) :
            i < j => ws[t].delivered[i].seq < ws[t].delivered[j].seq

\* The registry entry of client id c: the connection stored under c, or none.
RegistryEntry(conns, c) ==
    IF Registered(conns, c) THEN <<conns[ConnIndex(conns, c)]>> ELSE <<>>

\* C37: when the handler of a transport ends (its receive raised and it
\* called disconnect), the session registered under its client id stays
\* registered if it is the session of another, newer transport.
C37_OldHandlerLeavesNewerSession ==
    [][\A t \in Transports :
          (ws[t].pc = "receiving" /\ ws'[t].pc = "ended") =>
              LET c == ws[t].client_id IN
              (Registered(active_connections, c)
               /\ active_connections[ConnIndex(active_connections, c)].ws # t)
                  => /\ RegistryEntry(active_connections', c)
                            = RegistryEntry(active_connections, c)
                     /\ connection_groups' = connection_groups]_vars

\* C38: the first message delivered on a transport is the welcome message of
\* its session: no personal, broadcast or group message is delivered on it
\* before.
C38_WelcomeIsFirstMessage ==
    \A t \in Transports :
        ws[t].delivered # <<>> =>
            ws[t].delivered[1].type = "connection_established"

(***************************************************************************)
(*                             JANITOR                                     *)
(***************************************************************************)

\* _cleanup_inactive_connections: await asyncio.sleep(60)
CleanupInterval == 60

\* _cleanup_inactive_connections: inactive_threshold = 300
InactiveThreshold == 300

\* Time is counted in seconds; the clock advances by at most TickStep at a time
\* and the model stops it at MaxTime.
TickStep == 60
MaxTime == 420

Min(a, b) == IF a <= b THEN a ELSE b

\* The clients the janitor collects: registered, idle for more than the
\* threshold.
InactiveClients(conns) ==
    {conns[i].client_id : i \in {j \in 1..Len(conns) :
        (now - conns[j].last_activity) > InactiveThreshold}}

RECURSIVE DisconnectAll(_, _)
DisconnectAll(m, cs) ==
    IF cs = {} THEN m
    ELSE LET c == CHOOSE c \in cs : TRUE
         IN DisconnectAll(Disconnect(m, c), cs \ {c})

\* start_cleanup_task: creates the janitor task unless one exists.  The task
\* starts by sleeping one interval.  No entry module of the gateway calls
\* this method; here the environment may.
StartCleanupTask ==
    /\ cleanup_task = <<>>
    /\ cleanup_task' = <<[wake |-> now + CleanupInterval]>>
    /\ UNCHANGED <<ws, active_connections, connection_groups, sendTask, issued,
                   now, nonSessionVars>>

\* One iteration of _cleanup_inactive_connections after its sleep: every
\* inactive client is disconnected and the task sleeps again.
JanitorPass ==
    /\ cleanup_task # <<>>
    /\ now = cleanup_task[1].wake
    /\ SetManager(DisconnectAll(Manager, InactiveClients(active_connections)))
    /\ cleanup_task' = <<[wake |-> now + CleanupInterval]>>
    /\ UNCHANGED <<sendTask, issued, now, nonSessionVars>>

\* Time passes.  A sleeping janitor wakes exactly when its sleep ends: the
\* clock does not pass the wake time before the pass has run.
Tick ==
    /\ now < MaxTime
    /\ cleanup_task # <<>> => now < cleanup_task[1].wake
    /\ now' = LET next == Min(now + TickStep, MaxTime)
              IN IF cleanup_task # <<>>
                 THEN Min(next, cleanup_task[1].wake) ELSE next
    /\ UNCHANGED <<ws, active_connections, connection_groups, cleanup_task,
                   sendTask, issued, nonSessionVars>>

JanitorNext ==
    \/ \E c \in Clients : ConnectAccept(c)
    \/ \E t \in TransportIds : ConnectRegister(t)
    \/ \E t \in TransportIds : ClientClose(t)
    \/ \E t \in TransportIds : HandlerDisconnect(t)
    \/ \E c \in Clients : SendPersonal(c)
    \/ StartCleanupTask
    \/ JanitorPass
    \/ Tick

\* C10: in every run, a registered session is never idle for longer than the
\* threshold plus one janitor cycle plus one second: the janitor has
\* disconnected it by then.
C10_IdleSessionEvictedWithinCycle ==
    \A i \in 1..Len(active_connections) :
        now - active_connections[i].last_activity
            <= InactiveThreshold + CleanupInterval + 1

(***************************************************************************)
(*                        SESSION LAYER SHUTDOWN                           *)
(***************************************************************************)

IdleShutdown == [pc |-> "idle", current |-> None, rest |-> <<>>]

ShutdownInit == shutdownTask = IdleShutdown

\* The shutdown loop from its current position to its next suspension.  For
\* each client id of the list: send_personal_message(server_shutdown), then
\* disconnect.  A send to an unregistered id returns without suspending; a
\* send to a registered one suspends, the disconnect follows on resumption.
RECURSIVE ShutdownLoop(_, _, _)
ShutdownLoop(m, n, rcpts) ==
    IF rcpts = <<>>
    THEN [m |-> m, n |-> n, task |-> [IdleShutdown EXCEPT !.pc = "done"]]
    ELSE IF ~Registered(m.conns, Head(rcpts))
    THEN ShutdownLoop(Disconnect(m, Head(rcpts)), n, Tail(rcpts))
    ELSE [m |-> SendPersonalMessage(m,
                    [seq |-> n + 1, type |-> "server_shutdown"], Head(rcpts)).m,
          n |-> n + 1,
          task |-> [pc |-> "awaiting", current |-> Head(rcpts),
                    rest |-> Tail(rcpts)]]

\* WebSocketManager.shutdown is called: the cleanup task is cancelled, the
\* client ids are listed and the loop runs to its first suspension.  (The
\* gateway's own shutdown hook, JarvisLiveAPI.shutdown, does not call it.)
ManagerShutdown ==
    /\ shutdownTask.pc = "idle"
    /\ LET r == ShutdownLoop(Manager, issued, ConnKeys(active_connections))
       IN /\ SetManager(r.m)
          /\ issued' = r.n
          /\ shutdownTask' = r.task
    /\ cleanup_task' = <<>>
    /\ UNCHANGED <<sendTask, now, nonManagerVars>>

\* The loop resumes after a send: disconnect(client_id), then the next ids.
ShutdownResume ==
    /\ shutdownTask.pc = "awaiting"
    /\ LET r == ShutdownLoop(Disconnect(Manager, shutdownTask.current),
                             issued, shutdownTask.rest)
       IN /\ SetManager(r.m)
          /\ issued' = r.n
          /\ shutdownTask' = r.task
    /\ UNCHANGED <<cleanup_task, sendTask, now, nonManagerVars>>

ShutdownNext ==
    \/ \E c \in Clients : ConnectAccept(c)
    \/ \E t \in TransportIds : ConnectRegister(t)
    \/ \E t \in TransportIds : ClientClose(t)
    \/ \E t \in TransportIds : HandlerDisconnect(t)
    \/ \E c \in Clients : SendPersonal(c)
    \/ ManagerShutdown
    \/ ShutdownResume

\* C11: when shutdown completes the session registry is empty, also when
\* connect calls interleave with shutdown: no connection is registered once
\* shutdown has begun.
C11_RegistryEmptyWhenShutdownCompletes ==
    [][(shutdownTask.pc # "done" /\ shutdownTask'.pc = "done")
          => active_connections' = <<>>]_vars

\* Client c is a member of some group.
InSomeGroup(groups, c) ==
    \E g \in DOMAIN groups : \E i \in 1..Len(groups[g]) : groups[g][i] = c

\* C14: whenever a client leaves the registry (disconnect, whatever
\* triggered it), the transport it was registered with is closed and the
\* client id is in no group.
C14_DisconnectClosesTransport ==
    [][\A c \in Clients :
          (Registered(active_connections, c)
              /\ ~Registered(active_connections', c))
          => /\ ws'[active_connections[
                       ConnIndex(active_connections, c)].ws].state = "closed"
             /\ ~InSomeGroup(connection_groups', c)]_vars

(***************************************************************************)
(*                     DUPLEX ENDPOINT MESSAGE LOOP                        *)
(***************************************************************************)

\* Frames one transport's handler receives in one run.
MaxFrames == 2

\* What a client sends: a JSON object of one of the three handled types, a
\* JSON object of another type, or text that is not valid JSON.
FrameKinds == {"audio", "ai_request", "mcp_command", "other_type", "not_json"}

\* The type of the reply process_audio_message / process_ai_request /
\* process_mcp_command returns: the response type, or error when the
\* processing failed.
ReplyTypes(frame) ==
    CASE frame = "audio"       -> {"audio_response", "error"}
      [] frame = "ai_request"  -> {"ai_response", "error"}
      [] frame = "mcp_command" -> {"mcp_response", "error"}
      [] OTHER                 -> {}

\* One iteration of the websocket_endpoint loop: receive_json, then the
\* branch on data["type"].  A handled type is processed and answered through
\* send_personal_message; another type is ignored.  Text that is not JSON
\* makes receive_json raise a decoding error, which the handler does not
\* catch: the handler ends without calling disconnect and the server closes
\* the transport.
HandleFrame(t, frame) ==
    /\ t \in Transports
    /\ ws[t].pc = "receiving"
    /\ ws[t].state = "accepted"
    /\ ws[t].frames < MaxFrames
    /\ LET m1 == [Manager EXCEPT !.ws[t].frames = @ + 1,
                                 !.ws[t].last_frame = frame]
       IN IF frame = "not_json"
          THEN /\ SetManager([m1 EXCEPT !.ws[t].pc = "failed",
                                        !.ws[t].state = "closed"])
               /\ UNCHANGED issued
          ELSE IF ReplyTypes(frame) = {}
          THEN /\ SetManager(m1)
               /\ UNCHANGED issued
          ELSE /\ issued < MaxMessages
               /\ \E type \in ReplyTypes(frame) :
                    SetManager(SendPersonalMessage(m1,
                        [seq |-> issued + 1, type |-> type],
                        ws[t].client_id).m)
               /\ issued' = issued + 1
    /\ UNCHANGED <<cleanup_task, sendTask, now, nonSessionVars>>

DuplexNext ==
    \/ \E c \in Clients : ConnectAccept(c)
    \/ \E t \in TransportIds : ConnectRegister(t)
    \/ \E t \in TransportIds : ClientClose(t)
    \/ \E t \in TransportIds : HandlerDisconnect(t)
    \/ \E t \in TransportIds, f \in FrameKinds : HandleFrame(t, f)

\* The step in which the handler of transport t takes a frame that is not
\* valid JSON.
TakesInvalidJson(t) ==
    /\ t \in Transports
    /\ ws'[t].frames = ws[t].frames + 1
    /\ ws'[t].last_frame = "not_json"

\* C12: a frame that is not valid JSON is answered with an error-typed
\* message, and the session stays open and registered, its handler ready
\* for the next message.
C12_InvalidJsonAnsweredSessionStaysOpen ==
    [][\A t \in TransportIds :
          TakesInvalidJson(t) =>
              /\ ws'[t].pc = "receiving"
              /\ ws'[t].state = "accepted"
              /\ Registered(active_connections', ws[t].client_id)
              /\ Len(ws'[t].delivered) = Len(ws[t].delivered) + 1
              /\ ws'[t].delivered[Len(ws'[t].delivered)].type = "error"]_vars

(***************************************************************************)
(*                         TOKEN AUTHENTICATOR                             *)
(***************************************************************************)

\* Time is counted in units of 1/UnitsPerSecond second, so that the whole
\* seconds a token carries are a truncation of the clock.
UnitsPerSecond == 2
MaxAuthTicks == 3
MaxTokens == 2

\* JWT_EXPIRATION_HOURS
JWT_EXPIRATION_HOURS == 24
SecondsPerHour == 3600

HourUnits == SecondsPerHour * UnitsPerSecond
AuthSteps == {1, HourUnits - 1, JWT_EXPIRATION_HOURS * HourUnits - 1}

\* timegm(dt.utctimetuple()): a datetime as whole seconds.
ToSeconds(t) == t \div UnitsPerSecond

\* APIKeyManager.VALID_API_KEYS
VALID_API_KEYS ==
    ("demo_key_123" :> "demo_user") @@ ("test_key_456" :> "test_user")

\* The process environment: one of the four external service keys is set.
Environ == ("ANTHROPIC_API_KEY" :> "sk-ant-env-value")

\* The user each environment variable stands for (env_api_keys).
EnvUsers ==
    ("ANTHROPIC_API_KEY" :> "anthropic_user") @@
    ("OPENAI_API_KEY" :> "openai_user") @@
    ("ELEVENLABS_API_KEY" :> "elevenlabs_user") @@
    ("LIVEKIT_API_KEY" :> "livekit_user")

\* f"{api_key[:8]}_{cls.hash_api_key(api_key)[:8]}" of each environment value.
KeyIdentifier == ("sk-ant-env-value" :> "sk-ant-e_5f2a91c3")

\* EnhancedAPIKeyManager.get_valid_api_keys
GetValidApiKeys ==
    VALID_API_KEYS @@
    [k \in {KeyIdentifier[Environ[e]] : e \in DOMAIN Environ} |->
        EnvUsers[CHOOSE e \in DOMAIN Environ : KeyIdentifier[Environ[e]] = k]]

\* EnhancedAPIKeyManager.validate_api_key: the user id, or <<>>.
ValidateApiKey(api_key) ==
    IF api_key \in DOMAIN GetValidApiKeys THEN <<GetValidApiKeys[api_key]>>
    ELSE IF \E e \in DOMAIN Environ : api_key = Environ[e]
    THEN <<EnvUsers[CHOOSE e \in DOMAIN Environ : api_key = Environ[e]]>>
    ELSE <<>>

\* The api keys a client may send: every key the gateway knows, and one it
\* does not.
ApiKeys ==
    DOMAIN GetValidApiKeys \cup {Environ[e] : e \in DOMAIN Environ}
    \cup {"wrong_key"}

\* The User-Agent header of a token request: absent, the iOS client's, another.
UserAgents == {None, "iOS/JarvisLive-Sandbox/1.0", "curl/8.0"}

\* "iOS" in user_agent
ContainsIOS(user_agent) == user_agent \in {"iOS/JarvisLive-Sandbox/1.0"}

\* expiration_hours = 24 if user_agent and "iOS" in user_agent else 1
ExpirationHours(user_agent) ==
    IF user_agent # None /\ ContainsIOS(user_agent) THEN 24 ELSE 1

\* create_access_token without its expires_delta argument: the default
\* lifetime whatever the caller asked for.
CreateAccessTokenDefaultOnly(user_id, expires_delta, at) ==
    [form |-> "jwt", sig |-> "good", sub |-> user_id,
     exp |-> ToSeconds(at + JWT_EXPIRATION_HOURS * HourUnits),
     iat |-> ToSeconds(at), type |-> "access"]

\* JWTAuth.create_access_token; expires_delta is <<hours>>, or <<>> for None.
\* jwt.encode writes exp and iat as whole seconds and signs the payload.
CreateAccessToken(user_id, expires_delta, at) ==
    LET hours == IF expires_delta # <<>> THEN expires_delta[1]
                 ELSE JWT_EXPIRATION_HOURS
    IN [form |-> "jwt", sig |-> "good", sub |-> user_id,
        exp |-> ToSeconds(at + hours * HourUnits),
        iat |-> ToSeconds(at), type |-> "access"]

Rejected(detail) == [status |-> 401, detail |-> detail, payload |-> <<>>]

\* jwt.decode accepting a token until the second after its exp.
JwtDecodeLate(tok, at) ==
    IF tok.form # "jwt" \/ tok.sig # "good" THEN "DecodeError"
    ELSE IF tok.exp < ToSeconds(at) THEN "ExpiredSignatureError"
    ELSE "payload"

\* jwt.decode(token, JWT_SECRET_KEY, algorithms=[JWT_ALGORITHM]): the
\* signature is verified first, then the exp claim against the clock.
JwtDecode(tok, at) ==
    IF tok.form # "jwt" \/ tok.sig # "good" THEN "DecodeError"
    ELSE IF tok.exp <= ToSeconds(at) THEN "ExpiredSignatureError"
    ELSE "payload"

\* JWTAuth.verify_token
VerifyAccessToken(tok, at) ==
    LET decoded == JwtDecode(tok, at) IN
    IF decoded = "ExpiredSignatureError" THEN Rejected("Token has expired")
    ELSE IF decoded = "DecodeError"
    THEN Rejected("Invalid authentication credentials")
    ELSE IF tok.sub = None THEN Rejected("Invalid authentication credentials")
    ELSE [status |-> 200, detail |-> None,
          payload |-> <<[sub |-> tok.sub, exp |-> tok.exp, iat |-> tok.iat,
                         type |-> tok.type]>>]

NoAuthCall ==
    [op |-> None, status |-> 0, detail |-> None, api_key |-> None,
     user_agent |-> None, presented |-> <<>>, token |-> <<>>,
     expires_in |-> 0, payload |-> <<>>, at |-> 0]

AuthInit ==
    /\ auth_now = [t |-> 0, ticks |-> 0]
    /\ tokens = {}
    /\ lastAuth = NoAuthCall

\* The tokens the server has signed.
SignedTokens == {r.token : r \in tokens}

\* How a client presents a token it holds.
Alterations == {"intact", "bad_signature", "forged_exp", "malformed"}

Present(tok, alt) ==
    CASE alt = "intact" -> tok
      [] alt = "bad_signature" -> [tok EXCEPT !.sig = "bad"]
      [] alt = "forged_exp" ->
            [tok EXCEPT !.sig = "bad",
                        !.exp = @ + JWT_EXPIRATION_HOURS * SecondsPerHour]
      [] OTHER -> [tok EXCEPT !.form = "malformed"]

\* TokenResponse: expires_in defaults to JWT_EXPIRATION_HOURS * 3600.
TokenResponse(access_token, expires_in) ==
    [access_token |-> access_token, token_type |-> "bearer",
     expires_in |-> IF expires_in # <<>> THEN expires_in[1]
                    ELSE JWT_EXPIRATION_HOURS * SecondsPerHour]

\* POST /auth/token (generate_token)
GenerateToken(api_key, user_agent) ==
    /\ Cardinality(tokens) < MaxTokens
    /\ LET user_id == ValidateApiKey(api_key) IN
       IF user_id = <<>>
       THEN /\ lastAuth' = [NoAuthCall EXCEPT
                   !.op = "token", !.status = 401, !.detail = "Invalid API key",
                   !.api_key = api_key, !.user_agent = user_agent,
                   !.at = auth_now.t]
            /\ UNCHANGED tokens
       ELSE LET expiration_hours == ExpirationHours(user_agent)
                access_token == CreateAccessToken(user_id[1],
                                    <<expiration_hours>>, auth_now.t)
                response == TokenResponse(access_token,
                                <<expiration_hours * SecondsPerHour>>)
            IN /\ tokens' = tokens \cup
                      {[token |-> access_token, via |-> "token",
                        api_key |-> api_key, user_agent |-> user_agent,
                        expires_in |-> response.expires_in,
                        issued_at |-> auth_now.t, from |-> <<>>]}
               /\ lastAuth' = [NoAuthCall EXCEPT
                      !.op = "token", !.status = 200,
                      !.api_key = api_key, !.user_agent = user_agent,
                      !.token = <<response.access_token>>,
                      !.expires_in = response.expires_in, !.at = auth_now.t]
    /\ UNCHANGED <<auth_now, nonAuthVars>>

\* GET /auth/verify: the get_current_user dependency, then the token's claims.
VerifyTokenEndpoint(alt) ==
    /\ \E tok \in SignedTokens :
         LET cred == Present(tok, alt)
             res == VerifyAccessToken(cred, auth_now.t)
         IN lastAuth' = [NoAuthCall EXCEPT
                !.op = "verify", !.status = res.status, !.detail = res.detail,
                !.presented = <<cred>>, !.payload = res.payload,
                !.at = auth_now.t]
    /\ UNCHANGED <<auth_now, tokens, nonAuthVars>>

\* POST /auth/refresh (refresh_token)
RefreshToken(alt) ==
    /\ Cardinality(tokens) < MaxTokens
    /\ \E tok \in SignedTokens :
         LET cred == Present(tok, alt)
             current_user == VerifyAccessToken(cred, auth_now.t)
         IN IF current_user.status # 200
            THEN /\ lastAuth' = [NoAuthCall EXCEPT
                        !.op = "refresh", !.status = current_user.status,
                        !.detail = current_user.detail,
                        !.presented = <<cred>>, !.at = auth_now.t]
                 /\ UNCHANGED tokens
            ELSE LET user_id == current_user.payload[1].sub
                     new_token == CreateAccessToken(user_id, <<>>, auth_now.t)
                     response == TokenResponse(new_token, <<>>)
                 IN /\ tokens' = tokens \cup
                           {[token |-> new_token, via |-> "refresh",
                             api_key |-> None, user_agent |-> None,
                             expires_in |-> response.expires_in,
                             issued_at |-> auth_now.t, from |-> <<cred>>]}
                    /\ lastAuth' = [NoAuthCall EXCEPT
                           !.op = "refresh", !.status = 200,
                           !.presented = <<cred>>,
                           !.payload = current_user.payload,
                           !.token = <<response.access_token>>,
                           !.expires_in = response.expires_in,
                           !.at = auth_now.t]
    /\ UNCHANGED <<auth_now, nonAuthVars>>

\* Time passes.
AuthTick(step) ==
    /\ auth_now.ticks < MaxAuthTicks
    /\ auth_now' = [t |-> auth_now.t + step, ticks |-> auth_now.ticks + 1]
    /\ UNCHANGED <<tokens, lastAuth, nonAuthVars>>

AuthNext ==
    \/ \E api_key \in ApiKeys, user_agent \in UserAgents :
          GenerateToken(api_key, user_agent)
    \/ \E alt \in Alterations : VerifyTokenEndpoint(alt)
    \/ \E alt \in Alterations : RefreshToken(alt)
    \/ \E step \in AuthSteps : AuthTick(step)

Authentic(cred) == cred.form = "jwt" /\ cred.sig = "good"

ExpiredDetail == "Token has expired"
InvalidDetail == "Invalid authentication credentials"

Lifetime(tok) == tok.exp - tok.iat

\* The lifetime the token request of record r declares, in hours.
DeclaredHours(r) ==
    IF r.user_agent # None /\ ContainsIOS(r.user_agent) THEN 24 ELSE 1

\* The claims stand for the request of record r: the subject of its api key,
\* and an exp within one second of the issue time plus the declared lifetime.
IssueRoundTrip(r, claims) ==
    LET due == r.issued_at + DeclaredHours(r) * HourUnits
        exp == claims.exp * UnitsPerSecond
    IN /\ <<claims.sub>> = ValidateApiKey(r.api_key)
       /\ exp - due <= UnitsPerSecond
       /\ due - exp <= UnitsPerSecond

\* A token issued to the iOS client is verified at a later time and yields
\* its claims.
C17_Witness_MobileTokenVerified ==
    \E r \in tokens :
        /\ r.via = "token"
        /\ ContainsIOS(r.user_agent)
        /\ lastAuth.op = "verify"
        /\ lastAuth.presented = <<r.token>>
        /\ lastAuth.status = 200
        /\ lastAuth.at > r.issued_at

\* C17: for every known api key, verifying the token just issued yields the
\* subject mapped to the key and an exp equal to the issue time plus the
\* declared lifetime within one second; the declared lifetime, reported as
\* expires_in, is 1 hour, or 24 hours for the mobile (iOS) client hint.
C17_IssueVerifyRoundTrip ==
    \A r \in tokens :
        r.via = "token" =>
            LET verified == VerifyAccessToken(r.token, r.issued_at) IN
            /\ r.expires_in = DeclaredHours(r) * SecondsPerHour
            /\ verified.status = 200
            /\ IssueRoundTrip(r, verified.payload[1])
            /\ (/\ lastAuth.op = "verify"
                /\ lastAuth.presented = <<r.token>>
                /\ lastAuth.status = 200)
               => IssueRoundTrip(r, lastAuth.payload[1])

\* C18: a refreshed token has the subject and the lifetime of the token it
\* was refreshed from, and the expires_in of the response is its lifetime.
C18_RefreshKeepsLifetime ==
    \A r \in tokens :
        r.via = "refresh" =>
            /\ r.token.sub = r.from[1].sub
            /\ Lifetime(r.token) = Lifetime(r.from[1])
            /\ r.expires_in = Lifetime(r.token)

(***************************************************************************)
(*                  CONVERSATION HISTORY AND SUMMARY                       *)
(***************************************************************************)

\* add_interaction calls made on the context in one run.
MaxAdds == 3

\* CommandCategory values of the interactions.
Categories == {"general_conversation", "document_generation"}

\* Categories and user inputs of the interactions whose topic is followed.
TopicCategories == Categories \cup {"email_management"}
UserInputs == {"hello there", "report about sales"}

\* ContextManager._extract_topic_from_interaction: the text after "about",
\* "on" or "regarding" for document_generation, after "search for", "find" or
\* "about" for web_search, as a one-element sequence; None (the empty
\* sequence) when nothing matches and for every other category.
ExtractTopicFromInteraction(user_input, category) ==
    IF category \in {"document_generation", "web_search"}
          /\ user_input = "report about sales"
    THEN <<"sales">>
    ELSE <<>>

HistoryInit ==
    /\ conversation_history = <<>>
    /\ interactions = [made |-> 0, here |-> 0]
    /\ lastSummary = <<>>
    /\ current_topic = <<>>

\* get_context finds the context in the shared KV store: pickle.loads returns
\* it with the n interactions recorded earlier.
RestoreContext(n) ==
    /\ interactions.made = 0
    /\ conversation_history' =
           [i \in 1..n |-> [id |-> i, category |-> "general_conversation"]]
    /\ interactions' = [made |-> n, here |-> 0]
    /\ UNCHANGED <<lastSummary, current_topic, nonHistoryVars>>

\* update_context_interaction on the live context: add_interaction, the
\* current topic for every category but general_conversation, then save.
UpdateContextInteraction(user_input, category) ==
    /\ interactions.here < MaxAdds
    /\ current_topic' =
           IF category # "general_conversation"
           THEN ExtractTopicFromInteraction(user_input, category)
           ELSE current_topic
    /\ conversation_history' =
           AddInteraction(conversation_history,
                          [id |-> interactions.made + 1, category |-> category])
    /\ interactions' = [made |-> interactions.made + 1,
                        here |-> interactions.here + 1]
    /\ UNCHANGED <<lastSummary, nonHistoryVars>>

\* The statistics get_context_summary computes from a history.
ContextSummary(history) ==
    [total_interactions |-> Len(history),
     categories_used |-> {history[i].category : i \in 1..Len(history)}]

\* get_context_summary
GetContextSummary ==
    /\ lastSummary' = <<ContextSummary(conversation_history)>>
    /\ UNCHANGED <<conversation_history, interactions, current_topic,
                   nonHistoryVars>>

HistoryNext ==
    \/ \E n \in 1..MaxHistory : RestoreContext(n)
    \/ \E user_input \in UserInputs, category \in TopicCategories :
          UpdateContextInteraction(user_input, category)
    \/ GetContextSummary

\* A step of add_interaction.
Appends == interactions'.here = interactions.here + 1

\* The history is full and its oldest interaction has been removed.
C19_Witness_OldestEvicted ==
    /\ Len(conversation_history) = MaxHistory
    /\ conversation_history[1].id > 1
    /\ interactions.here > 0

\* C19: a context's history never holds more than 20 interactions; an append to
\* a history of exactly 20 removes the oldest entry, keeps the other 19 in
\* their order and puts the new interaction last.
C19_HistoryBoundedEvictsOldest ==
    /\ [](Len(conversation_history) <= MaxHistory)
    /\ [][(Appends /\ Len(conversation_history) = MaxHistory) =>
            /\ Len(conversation_history') = MaxHistory
            /\ \A i \in 1..(MaxHistory - 1) :
                  conversation_history'[i] = conversation_history[i + 1]
            /\ conversation_history'[MaxHistory].id = interactions'.made]_vars

\* C20: after an append the summary's total_interactions is one more than
\* the total the summary reported before the append.
C20_SummaryCountsEveryAppend ==
    [][Appends =>
          ContextSummary(conversation_history').total_interactions =
          ContextSummary(conversation_history).total_interactions + 1]_vars

\* C33: an append changes the current topic only for a document_generation
\* or web_search interaction; for any other category the topic after the
\* append is the topic before it.
C33_TopicChangesOnlyForDocumentAndSearch ==
    [][(Appends /\ conversation_history'[Len(conversation_history')].category
                      \notin {"document_generation", "web_search"})
          => current_topic' = current_topic]_vars

(***************************************************************************)
(*                          VOICE CLASSIFIER                               *)
(***************************************************************************)

\* classify_command calls in one run, and clock ticks between them.
MaxClassifications == 3
MaxClassifyTicks == 2

\* time.time() when the run starts, in seconds since the epoch.
ClassifyClockStart == 1700000000

\* self.cache_ttl
cache_ttl == 3600

\* combined_confidence += 0.1, in thousandths.
ContextBoost == 100

\* The categories classify_command tries, in the order of the enumeration.
CategoryOrder == <<"general_conversation", "document_generation">>

ClassifierTexts == {"create a document", "hello there", "", "um"}

\* VoiceClassifier.preprocess_text: lower case, filler words removed,
\* contractions expanded, blanks collapsed and stripped.  The other
\* utterances of the model are in that form already.
PreprocessText(text) == IF text \in {"", "um"} THEN "" ELSE text

\* VoiceClassifier._generate_suggestions: the suggestions for the keywords of
\* the text, or the three generic ones; at most three.
GenerateSuggestions(normalized_text) ==
    IF normalized_text \in
           {"create a document", "first create a document", "write document"}
    THEN <<"Try: 'Create a document about [topic]'",
           "Try: 'Generate a PDF report on [subject]'">>
    ELSE IF normalized_text = "send mail then archive it"
    THEN <<"Try: 'Send an email to [recipient] about [subject]'",
           "Try: 'Compose a message to the team'">>
    ELSE <<"Try being more specific about what you want to do",
           "Use action words like 'create', 'send', 'search', or 'schedule'",
           "Include details like recipients, topics, or dates">>

\* Utterances the patterns of document_generation match.
DocumentTexts ==
    {"create a document", "first create a document", "write document"}

\* (pattern_confidence * 0.6) + (similarity_confidence * 0.4), in thousandths.
BaseConfidence(text, category) ==
    CASE text \in DocumentTexts /\ category = "document_generation" -> 600
      [] text = "hello there" /\ category = "general_conversation" -> 400
      [] OTHER -> 0

\* The measured classification_time of a call, in seconds.
Durations == {0, 1}

\* f"{hashlib.md5(text.encode()).hexdigest()}_{user_id}_{session_id}"; the
\* digest of a text is written as the text.
ClassificationKey(text, u, s) == <<text>> \o <<"_">> \o u \o <<"_">> \o s

\* The loop over CommandCategory: the first category with the highest
\* combined confidence above 0.0, or unknown.
BestMatch(text, use_context, last_category) ==
    LET combined(i) ==
            BaseConfidence(text, CategoryOrder[i]) +
            (IF use_context /\ last_category = CategoryOrder[i]
             THEN ContextBoost ELSE 0)
        best == CHOOSE i \in DOMAIN CategoryOrder :
                    \A j \in DOMAIN CategoryOrder :
                        \/ combined(j) < combined(i)
                        \/ (combined(j) = combined(i) /\ i <= j)
    IN IF combined(best) > 0
       THEN [category |-> CategoryOrder[best], confidence |-> combined(best)]
       ELSE [category |-> "unknown", confidence |-> 0]

NoResult ==
    [category |-> None, confidence |-> 0, raw_text |-> None,
     context_used |-> FALSE, classification_time |-> 0, suggestions |-> <<>>]

ClassifierInit ==
    /\ classification_cache = <<>>
    /\ context_cache = <<>>
    /\ classifier_metrics = [cache_hits |-> 0, total_classifications |-> 0]
    /\ classify_clock = [t |-> ClassifyClockStart, ticks |-> 0]
    /\ lastClassify = [calls |-> 0, text |-> None, user |-> <<>>,
                       session |-> <<>>, use_context |-> FALSE, hit |-> FALSE,
                       result |-> NoResult, context_history |-> <<>>,
                       appended |-> 0]

\* VoiceClassifier.classify_command, as it acts on the classifier.
ClassifyCommandEffect(text, u, s, use_context, duration) ==
    /\ lastClassify.calls < MaxClassifications
    /\ LET cache_key == ClassificationKey(text, u, s)
           context_key == LocalKey(u, s)
           call == [lastClassify EXCEPT
                      !.calls = @ + 1, !.text = text, !.user = u,
                      !.session = s, !.use_context = use_context,
                      !.appended = interactions.made]
       IN IF /\ cache_key \in DOMAIN classification_cache
             /\ classify_clock.t
                  - classification_cache[cache_key].classification_time
                  < cache_ttl
          THEN /\ classifier_metrics' =
                      [classifier_metrics EXCEPT !.cache_hits = @ + 1]
               /\ lastClassify' =
                      [call EXCEPT !.hit = TRUE,
                                   !.result = classification_cache[cache_key]]
               /\ UNCHANGED <<classification_cache, context_cache>>
          ELSE LET context ==
                       IF context_key \in DOMAIN context_cache
                       THEN context_cache[context_key]
                       ELSE [last_command_category |-> None,
                             conversation_history |-> <<>>]
                   normalized_text == PreprocessText(text)
                   best == BestMatch(normalized_text, use_context,
                                     context.last_command_category)
                   result == [category |-> best.category,
                              confidence |-> best.confidence,
                              raw_text |-> text,
                              context_used |-> use_context,
                              classification_time |-> duration,
                              suggestions |->
                                  IF best.confidence < 500
                                  THEN GenerateSuggestions(normalized_text)
                                  ELSE <<>>]
               IN /\ context_cache' =
                         (context_key :>
                            [context EXCEPT
                                !.last_command_category = best.category])
                         @@ context_cache
                  /\ classification_cache' =
                         (cache_key :> result) @@ classification_cache
                  /\ classifier_metrics' =
                         [classifier_metrics EXCEPT
                             !.total_classifications = @ + 1]
                  /\ lastClassify' =
                         [call EXCEPT
                             !.hit = FALSE, !.result = result,
                             !.context_history = context.conversation_history]
    /\ UNCHANGED classify_clock

\* VoiceClassifier.classify_command
ClassifyCommand(text, u, s, use_context, duration) ==
    /\ ClassifyCommandEffect(text, u, s, use_context, duration)
    /\ UNCHANGED nonClassifierVars

\* A second passes.
ClassifyTick ==
    /\ classify_clock.ticks < MaxClassifyTicks
    /\ classify_clock' = [t |-> classify_clock.t + 1,
                          ticks |-> classify_clock.ticks + 1]
    /\ UNCHANGED <<classification_cache, context_cache, classifier_metrics,
                   lastClassify, nonClassifierVars>>

ClassifierNext ==
    \/ \E text \in ClassifierTexts, u \in CtxUsers, s \in CtxSessions,
          use_context \in BOOLEAN, duration \in Durations :
          ClassifyCommand(text, u, s, use_context, duration)
    \/ ClassifyTick
    \/ \E category \in Categories :
          UpdateContextInteraction("hello there", category)

\* C21: a classification that asks for the context, made after an interaction
\* was appended for the user and session, is computed against a context whose
\* history contains that interaction.
C21_ClassifySeesAppendedInteraction ==
    (lastClassify.calls > 0 /\ lastClassify.use_context
        /\ lastClassify.appended > 0) =>
        \E i \in DOMAIN lastClassify.context_history :
            lastClassify.context_history[i].id = lastClassify.appended

\* The request of the call being made is the request of the call before it.
RepeatsLastCall ==
    /\ lastClassify.calls > 0
    /\ lastClassify'.calls = lastClassify.calls + 1
    /\ lastClassify'.text = lastClassify.text
    /\ lastClassify'.user = lastClassify.user
    /\ lastClassify'.session = lastClassify.session
    /\ lastClassify'.use_context = lastClassify.use_context

\* C23: the second of two consecutive classify calls with the same text, user,
\* session and use_context is a cache hit counted in cache_hits, and returns
\* the category, confidence and text the first returned.
C23_RepeatedClassifyIsCacheHit ==
    [][RepeatsLastCall =>
          /\ lastClassify'.hit
          /\ classifier_metrics'.cache_hits = classifier_metrics.cache_hits + 1
          /\ lastClassify'.result.category = lastClassify.result.category
          /\ lastClassify'.result.confidence = lastClassify.result.confidence
          /\ lastClassify'.result.raw_text = lastClassify.result.raw_text]_vars

\* C31: a category other than unknown is returned only with a combined
\* confidence of at least 0.3 (300 thousandths); below it the category is
\* unknown.
C31_BelowThresholdIsUnknown ==
    (lastClassify.calls > 0 /\ lastClassify.result.category # "unknown")
        => lastClassify.result.confidence >= 300

\* C32: for a text that is empty or normalizes to the empty string the result
\* is unknown with confidence 0 and a non-empty suggestion list, whatever the
\* context and use_context.
C32_EmptyTextIsUnknown ==
    (lastClassify.calls > 0 /\ PreprocessText(lastClassify.text) = "") =>
        /\ lastClassify.result.category = "unknown"
        /\ lastClassify.result.confidence = 0
        /\ lastClassify.result.suggestions # <<>>

\* C34: a classify call leaves the conversation context of its user and
\* session as it was.
C34_ClassifyLeavesContext ==
    [][(lastClassify'.calls = lastClassify.calls + 1) =>
          LET key == LocalKey(lastClassify'.user, lastClassify'.session) IN
          key \in DOMAIN context_cache =>
              context_cache'[key] = context_cache[key]]_vars

(***************************************************************************)
(*               PERFORMANCE OPTIMIZER: CLASSIFICATION CACHE               *)
(***************************************************************************)

\* Cache operations in one run.
MaxCacheOps == 3

\* self.cache_ttl and self.max_local_cache_size of PerformanceOptimizer
opt_cache_ttl == 3600
opt_max_local_cache_size == 1000

\* Strings are sequences of characters, so that joining them is concatenation.
OptTexts == {<<"a">>, <<"a", ":", "b">>}
OptUsers == {<<"c">>, <<"b", ":", "c">>}
OptSessions == {<<"s">>}

\* str(context)
BoolStr(b) == IF b THEN <<"True">> ELSE <<"False">>

\* PerformanceOptimizer.generate_cache_key; the digest of a string is written
\* as the string itself (distinct strings, distinct digests).
GenerateCacheKey(text, user_id, session_id, context) ==
    <<"voice_classify:">> \o
    text \o <<":">> \o user_id \o <<":">> \o session_id \o <<":">> \o
    BoolStr(context)

\* A shared-KV call without the try block around it: its failure leaves the
\* operation as an exception.
KvOutcomeUnguarded(kv) == [failed |-> kv = "fail", raised |-> kv = "fail"]

\* A shared-KV call inside `try: ... except Exception as e: logger.warning`:
\* its failure is logged and the operation goes on.
KvOutcome(kv) == [failed |-> kv = "fail", raised |-> FALSE]

\* The place a key stored now takes in the insertion order of the dict: a key
\* that is already there keeps its place, a new key comes last.
SeqOf(cache, key) ==
    IF key \in DOMAIN cache THEN cache[key].seq
    ELSE IF DOMAIN cache = {} THEN 1
    ELSE LET seqs == {cache[k].seq : k \in DOMAIN cache}
         IN (CHOOSE x \in seqs : \A y \in seqs : y <= x) + 1

\* sorted(self.local_cache.items(), key=timestamp)[:m] over the keys: the
\* entries of the oldest timestamps, and, the sort being stable, those of the
\* last timestamp taken in the insertion order of the dict.
RECURSIVE OldestKeysOf(_, _, _)
OldestKeysOf(cache, keys, m) ==
    IF m = 0 \/ keys = {} THEN {}
    ELSE LET stamps == {cache[k].timestamp : k \in keys}
             t == CHOOSE x \in stamps : \A y \in stamps : x <= y
             T == {k \in keys : cache[k].timestamp = t}
         IN IF Cardinality(T) <= m
            THEN T \cup OldestKeysOf(cache, keys \ T, m - Cardinality(T))
            ELSE LET seqs == {cache[k].seq : k \in T}
                     last == CHOOSE x \in seqs :
                                 Cardinality({y \in seqs : y <= x}) = m
                 IN {k \in T : cache[k].seq <= last}

\* self.local_cache[key] = entry followed by _manage_local_cache_size.
OptCachePut(cache, key, entry) ==
    LET put == (key :> [result |-> entry.result,
                        timestamp |-> entry.timestamp,
                        seq |-> SeqOf(cache, key)]) @@ cache
        n == Cardinality(DOMAIN put)
    IN IF n > opt_max_local_cache_size
       THEN LET old == OldestKeysOf(put, DOMAIN put, n \div 5)
            IN [k \in DOMAIN put \ old |-> put[k]]
       ELSE put

\* The result the callers of cache_result pass for a text.
ResultFor(text) ==
    [category |-> "general_conversation", confidence |-> 700,
     raw_text |-> text]

NoCacheOp ==
    [op |-> None, n |-> 0, text |-> <<>>, user |-> <<>>, session |-> <<>>,
     use_context |-> FALSE, kv |-> None, raised |-> FALSE,
     returned |-> <<>>, local_only |-> <<>>]

OptimizerInit ==
    /\ opt_local_cache = <<>>
    /\ opt_redis = <<>>
    /\ opt_clock = 0
    /\ lastCacheOp = NoCacheOp

\* PerformanceOptimizer.get_cached_result; kv is the outcome of the shared-KV
\* read, should it be made.
GetCachedResult(text, u, s, use_context, kv) ==
    /\ lastCacheOp.n < MaxCacheOps
    /\ LET cache_key == GenerateCacheKey(text, u, s, use_context)
           cached == cache_key \in DOMAIN opt_local_cache
           fresh == cached /\ opt_clock - opt_local_cache[cache_key].timestamp
                                < opt_cache_ttl
           local1 == IF cached /\ ~fresh
                     THEN [k \in DOMAIN opt_local_cache \ {cache_key} |->
                              opt_local_cache[k]]
                     ELSE opt_local_cache
           call == [NoCacheOp EXCEPT
                      !.op = "get", !.n = lastCacheOp.n + 1, !.text = text,
                      !.user = u, !.session = s, !.use_context = use_context,
                      !.local_only = IF fresh
                                     THEN <<opt_local_cache[cache_key].result>>
                                     ELSE <<>>]
           read == KvOutcome(kv)
           stored == cache_key \in DOMAIN opt_redis
                     /\ opt_clock < opt_redis[cache_key].expires
       IN IF fresh
          THEN /\ lastCacheOp' = [call EXCEPT
                      !.returned = <<opt_local_cache[cache_key].result>>]
               /\ UNCHANGED opt_local_cache
          ELSE IF read.failed
          THEN /\ lastCacheOp' = [call EXCEPT !.kv = kv,
                                              !.raised = read.raised]
               /\ opt_local_cache' = local1
          ELSE IF stored
          THEN LET result == opt_redis[cache_key].data IN
               /\ opt_local_cache' =
                      OptCachePut(local1, cache_key,
                                  [result |-> result, timestamp |-> opt_clock])
               /\ lastCacheOp' = [call EXCEPT !.kv = kv,
                                              !.returned = <<result>>]
          ELSE /\ lastCacheOp' = [call EXCEPT !.kv = kv]
               /\ opt_local_cache' = local1
    /\ UNCHANGED <<opt_redis, opt_clock, nonOptimizerVars>>

\* PerformanceOptimizer.cache_result of the result computed for text; kv is
\* the outcome of the shared-KV write.
CacheResult(text, u, s, use_context, kv) ==
    /\ lastCacheOp.n < MaxCacheOps
    /\ LET cache_key == GenerateCacheKey(text, u, s, use_context)
           result == ResultFor(text)
           local == OptCachePut(opt_local_cache, cache_key,
                                [result |-> result, timestamp |-> opt_clock])
           write == KvOutcome(kv)
       IN /\ opt_local_cache' = local
          /\ opt_redis' =
                 IF write.failed THEN opt_redis
                 ELSE (cache_key :> [data |-> result,
                                     expires |-> opt_clock + opt_cache_ttl])
                      @@ opt_redis
          /\ lastCacheOp' = [NoCacheOp EXCEPT
                 !.op = "put", !.n = lastCacheOp.n + 1, !.text = text,
                 !.user = u, !.session = s, !.use_context = use_context,
                 !.kv = kv, !.raised = write.raised,
                 !.local_only = <<local[cache_key].result>>]
    /\ UNCHANGED <<opt_clock, nonOptimizerVars>>

\* The cache is left alone for the time to live of its entries.
OptimizerIdle ==
    /\ opt_clock < opt_cache_ttl
    /\ opt_clock' = opt_clock + opt_cache_ttl
    /\ UNCHANGED <<opt_local_cache, opt_redis, lastCacheOp, nonOptimizerVars>>

OptimizerNext ==
    \/ \E text \in OptTexts, u \in OptUsers, s \in OptSessions,
          use_context \in BOOLEAN, kv \in {"ok", "fail"} :
          GetCachedResult(text, u, s, use_context, kv)
    \/ \E text \in OptTexts, u \in OptUsers, s \in OptSessions,
          use_context \in BOOLEAN, kv \in {"ok", "fail"} :
          CacheResult(text, u, s, use_context, kv)
    \/ OptimizerIdle

\* C24: a result returned by a cache lookup has the raw_text of the request
\* that is being looked up, whatever characters the text and the ids contain.
C24_HitReturnsRequestedText ==
    (lastCacheOp.op = "get" /\ lastCacheOp.returned # <<>>) =>
        lastCacheOp.returned[1].raw_text = lastCacheOp.text

\* Numbers of phrases given to warm_cache.
WarmSizes == {1, opt_max_local_cache_size + 1}

\* PerformanceOptimizer.warm_cache(common_phrases) with the n distinct phrases
\* "1", ..., "n", as the service calls it when it starts, before the first
\* request: an entry is stored for every phrase; _manage_local_cache_size is
\* not called.
WarmCache(n) ==
    /\ lastCacheOp.n < MaxCacheOps
    /\ lastCacheOp.n = 0
    /\ opt_local_cache' =
           [k \in {GenerateCacheKey(<<ToString(i)>>, <<"cache_warm">>,
                                    <<"cache_warm">>, FALSE) : i \in 1..n} |->
              [result |-> [category |-> "general_conversation",
                           confidence |-> 500, raw_text |-> <<k[2]>>],
               timestamp |-> opt_clock,
               seq |-> CHOOSE i \in 1..n : ToString(i) = k[2]]]
    /\ lastCacheOp' = [NoCacheOp EXCEPT !.op = "warm",
                                        !.n = lastCacheOp.n + 1]
    /\ UNCHANGED <<opt_redis, opt_clock, nonOptimizerVars>>

\* The cache is warmed, then come inserts and lookups of one entry.
WarmNext ==
    \/ \E n \in WarmSizes : WarmCache(n)
    \/ \E text \in {<<"a">>}, u \in {<<"c">>}, s \in OptSessions,
          use_context \in {FALSE}, kv \in {"ok", "fail"} :
          GetCachedResult(text, u, s, use_context, kv)
    \/ \E text \in {<<"a">>}, u \in {<<"c">>}, s \in OptSessions,
          use_context \in BOOLEAN, kv \in {"ok", "fail"} :
          CacheResult(text, u, s, use_context, kv)
    \/ OptimizerIdle

\* The entries of the local cache.
LocalEntries == Cardinality(DOMAIN opt_local_cache)

\* C35: the local cache never holds more than max_local_cache_size entries,
\* and an insert that takes it past that size removes the oldest fifth.
C35_LocalCacheBounded ==
    /\ [](LocalEntries <= opt_max_local_cache_size)
    /\ [][(/\ lastCacheOp'.op = "put"
           /\ lastCacheOp'.n = lastCacheOp.n + 1
           /\ LocalEntries >= opt_max_local_cache_size
           /\ GenerateCacheKey(lastCacheOp'.text, lastCacheOp'.user,
                               lastCacheOp'.session, lastCacheOp'.use_context)
                  \notin DOMAIN opt_local_cache)
          => Cardinality(DOMAIN opt_local_cache') =
                 (LocalEntries + 1) - ((LocalEntries + 1) \div 5)]_vars

(***************************************************************************)
(*                 SHARED-KV FAILURES IN BOTH CACHE TIERS                  *)
(***************************************************************************)

\* Lookups and inserts of one cache entry, with either outcome of the shared
\* KV, while context requests are running.
DegradeNext ==
    \/ \E text \in {<<"a">>}, u \in {<<"c">>}, s \in OptSessions,
          kv \in {"ok", "fail"} : GetCachedResult(text, u, s, FALSE, kv)
    \/ \E text \in {<<"a">>}, u \in {<<"c">>}, s \in OptSessions,
          kv \in {"ok", "fail"} : CacheResult(text, u, s, FALSE, kv)
    \/ OptimizerIdle
    \/ ContextNext

\* The entry of the request of the last cache operation.
LastCacheKey ==
    GenerateCacheKey(lastCacheOp.text, lastCacheOp.user, lastCacheOp.session,
                     lastCacheOp.use_context)

\* A cache lookup whose shared-KV read failed has returned, and a context
\* request whose shared-KV write failed has returned.
C25_Witness_FailedReadAndWrite ==
    /\ lastCacheOp.op = "get"
    /\ lastCacheOp.kv = "fail"
    /\ \E t \in AppendTasks :
          /\ ctxTask[t].pc = "done"
          /\ RedisKey(ctxTask[t].user, ctxTask[t].session) \notin DOMAIN redis_ctx

\* C25: a cache lookup or insert never raises; when its shared-KV call failed
\* a lookup returns what the local map holds and an insert has stored the
\* result in the local map.  A context request never ends in an exception
\* either: whatever the shared KV did, the request goes on with a context
\* that is in the local map and holds its interaction.
C25_KvFailureDegradesToLocal ==
    /\ [](lastCacheOp.op # None =>
             /\ ~lastCacheOp.raised
             /\ (lastCacheOp.op = "get" /\ lastCacheOp.kv = "fail") =>
                    lastCacheOp.returned = lastCacheOp.local_only
             /\ lastCacheOp.op = "put" =>
                    /\ LastCacheKey \in DOMAIN opt_local_cache
                    /\ <<opt_local_cache[LastCacheKey].result>>
                           = lastCacheOp.local_only)
    /\ [][\A t \in AppendTasks :
             ctxTask'[t] # ctxTask[t] =>
                 /\ ctxTask'[t].pc # "raised"
                 /\ ctxTask'[t].pc \in {"setex", "sadd", "done"} =>
                       /\ LocalKey(ctxTask'[t].user, ctxTask'[t].session)
                              \in DOMAIN local_cache'
                       /\ InHistory(t, heap'[ctxTask'[t].obj].history)]_vars

(***************************************************************************)
(*                  PERFORMANCE OPTIMIZER: BATCH QUEUE                     *)
(***************************************************************************)

\* Requests given to add_to_batch_queue in one run.
MaxRequests == 3

\* self.batch_size
batch_size == 10

Priorities == {"high", "normal", "low"}
RequestIds == 1..MaxRequests
DrainIds == 1..MaxRequests

BatchInit ==
    /\ batch_queue = <<>>
    /\ processing_batches = FALSE
    /\ drainTasks = <<>>
    /\ processed = <<>>
    /\ submitted = 0

\* [r for r in self.batch_queue if r.priority == priority]
RECURSIVE OfPriority(_, _)
OfPriority(queue, priority) ==
    IF queue = <<>> THEN <<>>
    ELSE (IF Head(queue).priority = priority THEN <<Head(queue)>> ELSE <<>>)
         \o OfPriority(Tail(queue), priority)

\* The requests of the queue in the order of their arrival.
ArrivalOrder(queue) == queue

\* The groups process_batch_queue goes through, one after the other:
\* high_priority, normal_priority, low_priority.
PriorityOrder(queue) ==
    OfPriority(queue, "high") \o OfPriority(queue, "normal")
    \o OfPriority(queue, "low")

\* PerformanceOptimizer.add_to_batch_queue
AddToBatchQueue(priority) ==
    /\ submitted < MaxRequests
    /\ submitted' = submitted + 1
    /\ batch_queue' = Append(batch_queue,
                             [id |-> submitted + 1, priority |-> priority])
    /\ drainTasks' =
           IF (Len(batch_queue') >= batch_size \/ priority = "high")
              /\ ~processing_batches
           THEN Append(drainTasks, [pc |-> "created", todo |-> <<>>])
           ELSE drainTasks
    /\ UNCHANGED <<processing_batches, processed, nonBatchVars>>

\* A created process_batch_queue task starts running: it returns at once when
\* a drain is in progress or the queue is empty, else it takes the requests
\* now in the queue and starts on the first of them.
DrainStart(k) ==
    /\ k \in DOMAIN drainTasks
    /\ drainTasks[k].pc = "created"
    /\ IF processing_batches \/ batch_queue = <<>>
       THEN /\ drainTasks' = [drainTasks EXCEPT ![k].pc = "done"]
            /\ UNCHANGED processing_batches
       ELSE /\ processing_batches' = TRUE
            /\ drainTasks' = [drainTasks EXCEPT
                   ![k] = [pc |-> "running",
                           todo |-> PriorityOrder(batch_queue)]]
    /\ UNCHANGED <<batch_queue, processed, submitted, nonBatchVars>>

\* The await of cache_result for the request in hand returns: the request is
\* processed.  After the last one the queue is cleared and the drain ends.
DrainStep(k) ==
    /\ k \in DOMAIN drainTasks
    /\ drainTasks[k].pc = "running"
    /\ LET request == Head(drainTasks[k].todo)
           rest == Tail(drainTasks[k].todo)
       IN /\ processed' = Append(processed,
                 [drain |-> k, id |-> request.id,
                  priority |-> request.priority])
          /\ IF rest = <<>>
             THEN /\ batch_queue' = <<>>
                  /\ processing_batches' = FALSE
                  /\ drainTasks' = [drainTasks EXCEPT
                         ![k] = [pc |-> "done", todo |-> <<>>]]
             ELSE /\ drainTasks' = [drainTasks EXCEPT ![k].todo = rest]
                  /\ UNCHANGED <<batch_queue, processing_batches>>
    /\ UNCHANGED <<submitted, nonBatchVars>>

BatchNext ==
    \/ \E priority \in Priorities : AddToBatchQueue(priority)
    \/ \E k \in DrainIds : DrainStart(k)
    \/ \E k \in DrainIds : DrainStep(k)

\* The event loop runs every task that was created and resumes every await
\* that can return.
BatchFairness ==
    /\ \A k \in DrainIds : WF_vars(DrainStart(k))
    /\ \A k \in DrainIds : WF_vars(DrainStep(k))

Rank(priority) ==
    CASE priority = "high" -> 1 [] priority = "normal" -> 2 [] OTHER -> 3

\* One drain has processed a high-priority request before a low-priority
\* request that was queued earlier.
C26_Witness_HighOvertakesLow ==
    \E i, j \in DOMAIN processed :
        /\ i < j
        /\ processed[i].drain = processed[j].drain
        /\ processed[i].priority = "high"
        /\ processed[j].priority = "low"
        /\ processed[j].id < processed[i].id

\* C26: of two requests processed by the same drain, the one processed first
\* has the higher or the same priority: high before normal before low.
C26_DrainInPriorityOrder ==
    \A i, j \in DOMAIN processed :
        (i < j /\ processed[i].drain = processed[j].drain) =>
            Rank(processed[i].priority) <= Rank(processed[j].priority)

\* C27: every request given to the batch queue is eventually processed.
C27_EveryRequestEventuallyProcessed ==
    \A r \in RequestIds :
        (submitted >= r) ~> (\E i \in DOMAIN processed : processed[i].id = r)

\* The callback of the request in hand raises: process_batch_queue logs the
\* error and ends; the queue is not cleared.
DrainFail(k) ==
    /\ k \in DOMAIN drainTasks
    /\ drainTasks[k].pc = "running"
    /\ processing_batches' = FALSE
    /\ drainTasks' = [drainTasks EXCEPT ![k] = [pc |-> "done", todo |-> <<>>]]
    /\ UNCHANGED <<batch_queue, processed, submitted, nonBatchVars>>

\* The batch queue with callbacks that can raise.
BatchErrorNext ==
    \/ \E priority \in Priorities : AddToBatchQueue(priority)
    \/ \E k \in DrainIds : DrainStart(k)
    \/ \E k \in DrainIds : DrainStep(k)
    \/ \E k \in DrainIds : DrainFail(k)

QueuedIds(queue) == {queue[i].id : i \in DOMAIN queue}
ProcessedIds(done) == {done[i].id : i \in DOMAIN done}

\* C36: every request given to add_to_batch_queue is processed exactly once:
\* a request leaves the queue only when it has been processed, also one that
\* was queued while a drain was running, and no request is processed twice,
\* also after a drain that ended with an error.
C36_AcceptedRequestsProcessedOnce ==
    /\ [][QueuedIds(batch_queue) \ QueuedIds(batch_queue')
              \subseteq ProcessedIds(processed')]_vars
    /\ [](\A i, j \in DOMAIN processed :
              i # j => processed[i].id # processed[j].id)

(***************************************************************************)
(*                     ADVANCED COMMAND PROCESSING                         *)
(***************************************************************************)

\* Executions of steps cut short in one run, and process_advanced_command
\* calls in one run.
MaxInterrupts == 4
MaxProcessCalls == 3

\* Utterances given to process_advanced_command.
ProcTexts ==
    {"hello there", "create a document", "first create a document",
     "write document", "send mail then archive it"}

\* The words of an utterance.  The utterances are in lower case with single
\* blanks, and none of their words has "and" or "then" inside another word.
Words(text) ==
    CASE text = "hello there" -> <<"hello", "there">>
      [] text = "create a document" -> <<"create", "a", "document">>
      [] text = "first create a document" ->
             <<"first", "create", "a", "document">>
      [] text = "write document" -> <<"write", "document">>
      [] text = "send mail then archive it" ->
             <<"send", "mail", "then", "archive", "it">>

\* re.search(r"\b(p|q|...)\b", text, re.IGNORECASE), and `keyword in
\* text_lower`: one of the phrases stands in the utterance as whole words.
HasPhrase(text, phrases) ==
    \E p \in phrases : \E k \in 0..(Len(Words(text)) - Len(p)) :
        \A j \in 1..Len(p) : Words(text)[k + j] = p[j]

\* text.count(word)
Count(text, word) ==
    Cardinality({k \in DOMAIN Words(text) : Words(text)[k] = word})

sequential_patterns ==
    {<<"then">>, <<"next">>, <<"after">>, <<"followed", "by">>,
     <<"and", "then">>, <<"first">>, <<"second">>, <<"third">>,
     <<"finally">>, <<"step", "by", "step">>, <<"one", "by", "one">>}
conditional_patterns ==
    {<<"if">>, <<"when">>, <<"unless">>, <<"provided", "that">>,
     <<"depending", "on">>, <<"based", "on">>, <<"in", "case">>}
compound_patterns ==
    {<<"and">>, <<"also">>, <<"plus">>, <<"additionally">>, <<"both">>,
     <<"all">>, <<"multiple">>}
iterative_patterns ==
    {<<"for", "each">>, <<"every">>, <<"all">>, <<"repeat">>, <<"loop">>,
     <<"iterate">>, <<"multiple", "times">>}

\* AdvancedVoiceProcessor._analyze_command_complexity
AnalyzeCommandComplexity(text) ==
    IF HasPhrase(text, sequential_patterns) THEN "sequential"
    ELSE IF HasPhrase(text, conditional_patterns) THEN "conditional"
    ELSE IF HasPhrase(text, iterative_patterns) THEN "iterative"
    ELSE IF HasPhrase(text, compound_patterns) THEN "compound"
    ELSE "simple"

\* AdvancedVoiceProcessor._estimate_workflow_steps
EstimateWorkflowSteps(text, complexity) ==
    LET base_steps == CASE complexity = "simple" -> 1
                        [] complexity = "compound" -> 2
                        [] complexity = "sequential" -> 3
                        [] complexity = "conditional" -> 3
                        [] complexity = "iterative" -> 4
    IN Min(base_steps + Count(text, "and") + Count(text, "then"), 10)

\* AdvancedVoiceProcessor._identify_required_parameters(self, category)
IdentifyRequiredParameters(category) ==
    CASE category = "document_generation" -> <<"content_topic", "format">>
      [] category = "email_management" -> <<"recipient", "subject">>
      [] category = "calendar_scheduling" -> <<"date_time", "attendees">>
      [] category = "web_search" -> <<"query">>
      [] category = "reminders" -> <<"task", "time">>
      [] category = "calculations" -> <<"expression">>
      [] OTHER -> <<>>

\* template_keywords of _match_workflow_template, in the order of the dict.
template_keywords ==
    << [name |-> "document_creation_workflow",
        keywords |-> {<<"create", "document">>, <<"generate", "report">>,
                      <<"write", "document">>}],
       [name |-> "email_campaign_workflow",
        keywords |-> {<<"email", "campaign">>, <<"send", "emails">>,
                      <<"mass", "email">>}],
       [name |-> "meeting_coordination_workflow",
        keywords |-> {<<"schedule", "meeting">>, <<"coordinate", "meeting">>,
                      <<"organize", "meeting">>}],
       [name |-> "research_compilation_workflow",
        keywords |-> {<<"research">>, <<"compile", "information">>,
                      <<"gather", "data">>}] >>

\* AdvancedVoiceProcessor._match_workflow_template: the first template with a
\* keyword in the text, as a one-element sequence, or the empty sequence.
MatchWorkflowTemplate(text) ==
    LET hits == {i \in DOMAIN template_keywords :
                    HasPhrase(text, template_keywords[i].keywords)}
    IN IF hits = {} THEN <<>>
       ELSE <<template_keywords[CHOOSE i \in hits :
                                    \A j \in hits : i <= j].name>>

\* self.workflow_templates: the commands of each template's steps.  No step
\* definition has a "parameters" entry.
workflow_templates ==
    [document_creation_workflow |->
        <<"gather_document_requirements", "create_document_outline",
          "generate_document_content", "format_document",
          "review_and_finalize">>,
     email_campaign_workflow |->
        <<"define_email_audience", "create_email_template",
          "personalize_email_content", "schedule_email_delivery",
          "track_email_metrics">>,
     meeting_coordination_workflow |->
        <<"identify_meeting_participants", "find_available_time_slots",
          "send_meeting_invites", "prepare_meeting_agenda",
          "setup_meeting_room">>,
     research_compilation_workflow |->
        <<"define_research_scope", "conduct_web_research",
          "analyze_research_findings", "compile_research_report",
          "create_presentation_summary">>]

\* The try block of _resolve_advanced_intent without the call of
\* _identify_required_parameters (self.intent_classifier is None until
\* initialize() loads a model).
IntentAnalysis(text) ==
    LET complexity == AnalyzeCommandComplexity(text) IN
    [complexity |-> complexity,
     estimated_steps |-> EstimateWorkflowSteps(text, complexity),
     workflow_template |-> MatchWorkflowTemplate(text)]

\* The parameters _identify_required_parameters declares after self, and
\* the arguments _resolve_advanced_intent passes to it.
RequiredParametersSignature == <<"category">>
RequiredParametersArguments == <<"text", "basic_classification.category">>

\* A call with more or fewer positional arguments than the method declares
\* raises TypeError.
CallRaises(signature, arguments) == Len(arguments) # Len(signature)

\* AdvancedVoiceProcessor._resolve_advanced_intent: the result of the try
\* block, or the result of the except block when the try block raised.
ResolveAdvancedIntent(text) ==
    IF CallRaises(RequiredParametersSignature, RequiredParametersArguments)
    THEN [complexity |-> "simple", estimated_steps |-> 1,
          workflow_template |-> <<>>]
    ELSE IntentAnalysis(text)

\* The first k with Words(text)[k] in keys that has a word after it, or 0.
FirstKeyword(text, keys) ==
    LET at == {k \in 1..(Len(Words(text)) - 1) : Words(text)[k] \in keys}
    IN IF at = {} THEN 0 ELSE CHOOSE k \in at : \A j \in at : k <= j

\* VoiceClassifier.extract_parameters, for the categories of CategoryOrder:
\* the list of (name, value) in the order they are put in the dict.
ExtractParameters(text, category) ==
    IF category = "document_generation"
    THEN LET w == Words(text)
             formats == {k \in DOMAIN w :
                            w[k] \in {"pdf", "doc", "docx", "txt", "markdown"}}
             k == IF FirstKeyword(text, {"about"}) > 0
                  THEN FirstKeyword(text, {"about"})
                  ELSE IF FirstKeyword(text, {"on"}) > 0
                  THEN FirstKeyword(text, {"on"})
                  ELSE FirstKeyword(text, {"document"})
             stops == {m \in (k + 1)..Len(w) :
                          m = Len(w) \/ w[m + 1] \in {"in", "for"}}
         IN (IF formats = {} THEN <<>>
             ELSE << <<"format",
                       <<w[CHOOSE i \in formats : \A j \in formats : i <= j]>>
                     >> >>)
            \o (IF k = 0 THEN <<>>
                ELSE << <<"content_topic",
                          SubSeq(w, k + 1,
                                 CHOOSE m \in stops : \A n \in stops : m <= n)
                        >> >>)
    ELSE <<>>

\* The value of the first pattern of hints found in the text, as a
\* one-element sequence, or the empty sequence.
FirstHint(text, hints) ==
    LET hit == {i \in DOMAIN hints : HasPhrase(text, hints[i].pattern)}
    IN IF hit = {} THEN <<>>
       ELSE <<hints[CHOOSE i \in hit : \A j \in hit : i <= j].value>>

format_hints ==
    << [pattern |-> {<<"pdf">>, <<"portable", "document">>}, value |-> "pdf"],
       [pattern |-> {<<"word">>, <<"doc">>, <<"docx">>, <<"document">>},
        value |-> "docx"],
       [pattern |-> {<<"presentation">>, <<"slides">>, <<"ppt">>,
                     <<"powerpoint">>}, value |-> "pptx"],
       [pattern |-> {<<"spreadsheet">>, <<"excel">>, <<"xlsx">>},
        value |-> "xlsx"],
       [pattern |-> {<<"markdown">>, <<"md">>}, value |-> "md"],
       [pattern |-> {<<"text">>, <<"txt">>}, value |-> "txt"] >>
priority_patterns ==
    << [pattern |-> {<<"critical">>, <<"urgent">>, <<"emergency">>,
                     <<"asap">>, <<"immediately">>}, value |-> "high"],
       [pattern |-> {<<"important">>, <<"priority">>, <<"soon">>,
                     <<"quick">>}, value |-> "medium"],
       [pattern |-> {<<"low", "priority">>, <<"when", "convenient">>,
                     <<"later">>, <<"eventually">>}, value |-> "low"] >>
audience_patterns ==
    << [pattern |-> {<<"team">>, <<"colleagues">>, <<"coworkers">>},
        value |-> "internal_team"],
       [pattern |-> {<<"client">>, <<"customer">>,
                     <<"customer", "service">>}, value |-> "external_client"],
       [pattern |-> {<<"management">>, <<"boss">>, <<"supervisor">>},
        value |-> "management"],
       [pattern |-> {<<"public">>, <<"everyone">>, <<"general">>},
        value |-> "public"],
       [pattern |-> {<<"technical">>, <<"developer">>, <<"engineer">>},
        value |-> "technical"] >>

\* An AdvancedParameter: its name, its value (a one-element sequence, or the
\* empty sequence for None) and its ParameterType.
Parameter(name, value, type) == [name |-> name, value |-> value, type |-> type]

\* The parameters of one name and type for an optional value.
Inferred(name, found) ==
    IF found = <<>> THEN <<>> ELSE <<Parameter(name, found, "inferred")>>

\* AdvancedVoiceProcessor._infer_parameters, for the categories of
\* CategoryOrder (the time inference is for calendar_scheduling and
\* reminders only).
InferParameters(text, category) ==
    (IF category = "document_generation"
     THEN Inferred("format", FirstHint(text, format_hints)) ELSE <<>>)
    \o Inferred("priority", FirstHint(text, priority_patterns))
    \o Inferred("audience", FirstHint(text, audience_patterns))

\* AdvancedVoiceProcessor._resolve_intelligent_parameters when get_context
\* returns None: the literal parameters of the classification, the inferred
\* ones, then a prompted parameter without value for every required name
\* that is still missing.
ResolveIntelligentParameters(text, category, extracted) ==
    LET found == [i \in DOMAIN extracted |->
                     Parameter(extracted[i][1], <<extracted[i][2]>>, "literal")]
                 \o InferParameters(text, category)
        required == IdentifyRequiredParameters(category)
        missing == SelectSeq(required,
                       LAMBDA r : \A i \in DOMAIN found : found[i].name # r)
    IN found \o [i \in DOMAIN missing |-> Parameter(missing[i], <<>>, "prompted")]

\* {param.name: param for param in parameters}: the last parameter of each
\* name.
ParameterDict(parameters) ==
    [n \in {parameters[i].name : i \in DOMAIN parameters} |->
        parameters[CHOOSE i \in DOMAIN parameters :
                      /\ parameters[i].name = n
                      /\ \A j \in DOMAIN parameters :
                             parameters[j].name = n => j <= i]]

\* _detect_multi_step_workflow returns None for these intent results.
IsSingleStep(intent_result) ==
    intent_result.estimated_steps <= 1 /\ intent_result.workflow_template = <<>>

\* The parameters of the steps _detect_multi_step_workflow creates: one step
\* for each step of the template, with the parameters the step definition
\* names, or estimated_steps steps with all the parameters.
WorkflowSteps(intent_result, parameters) ==
    IF /\ intent_result.workflow_template # <<>>
       /\ intent_result.workflow_template[1] \in DOMAIN workflow_templates
    THEN [i \in DOMAIN workflow_templates[intent_result.workflow_template[1]]
             |-> <<>>]
    ELSE [i \in 1..intent_result.estimated_steps |-> ParameterDict(parameters)]

\* AdvancedVoiceProcessor._detect_multi_step_workflow followed by
\* _execute_workflow; the new workflow, if any, gets the identifier id.
DetectMultiStepWorkflow(id, intent_result, parameters) ==
    IF IsSingleStep(intent_result)
    THEN UNCHANGED <<active_workflows, wfExec, wfFailed>>
    ELSE /\ id \notin DOMAIN active_workflows
         /\ RegisterWorkflow(id,
                NewWorkflow(WorkflowSteps(intent_result, parameters)))

\* AdvancedVoiceProcessor.process_advanced_command for a user and session
\* of which the context store holds no context (get_context returns None
\* and changes nothing).
ProcessAdvancedCommand(id, text, u, s, use_context, duration) ==
    /\ lastProcess.calls < MaxProcessCalls
    /\ LocalKey(u, s) \notin DOMAIN local_cache
    /\ RedisKey(u, s) \notin DOMAIN redis_ctx
    /\ ClassifyCommandEffect(text, u, s, use_context, duration)
    /\ LET category == lastClassify'.result.category
           intent_result == ResolveAdvancedIntent(text)
           enhanced_parameters ==
               ResolveIntelligentParameters(text, category,
                   ExtractParameters(text, category))
           steps == WorkflowSteps(intent_result, enhanced_parameters)
       IN /\ DetectMultiStepWorkflow(id, intent_result, enhanced_parameters)
          /\ processing_stats' = [processing_stats EXCEPT
                 !.total_commands = @ + 1,
                 !.multi_step_commands =
                     IF ~IsSingleStep(intent_result) /\ Len(steps) > 1
                     THEN @ + 1 ELSE @]
          /\ lastProcess' =
                 [calls |-> lastProcess.calls + 1, text |-> text,
                  error |-> FALSE,
                  workflow |-> IF IsSingleStep(intent_result)
                               THEN <<>> ELSE <<id>>,
                  estimated_steps |-> intent_result.estimated_steps,
                  workflow_template |-> intent_result.workflow_template]
    /\ UNCHANGED <<wfCall, nonWorkflowClassifierVars>>

\* _detect_multi_step_workflow called with the intent result the analysis of
\* the text gives and the parameters resolved for a classification.
DetectWorkflowCall(id, text, category) ==
    /\ ~IsSingleStep(IntentAnalysis(text))
    /\ DetectMultiStepWorkflow(id, IntentAnalysis(text),
           ResolveIntelligentParameters(text, category,
               ExtractParameters(text, category)))
    /\ UNCHANGED <<wfCall, processing_stats, lastProcess, nonWorkflowVars>>

\* The executions cut short so far, over the steps of one workflow.
RECURSIVE Interrupts(_)
Interrupts(failed) ==
    IF failed = <<>> THEN 0 ELSE Head(failed) + Interrupts(Tail(failed))

\* The task awaiting asyncio.sleep in continue_workflow is cancelled (its
\* caller gave up waiting): the exception leaves continue_workflow, which
\* has no handler.
ContinueInterrupted(c) ==
    /\ wfCall[c].pc = "sleeping"
    /\ LET id == wfCall[c].wf IN
       /\ Interrupts(wfFailed[id]) < MaxInterrupts
       /\ wfFailed' = [wfFailed EXCEPT ![id][wfCall[c].step + 1] = @ + 1]
    /\ wfCall' = [wfCall EXCEPT ![c] = IdleCall]
    /\ UNCHANGED <<active_workflows, wfExec, processing_stats, lastProcess,
                   nonWorkflowVars>>

ProcCategories == {"document_generation", "unknown"}

ProcessorNext ==
    \/ \E id \in WorkflowIds, text \in ProcTexts, u \in CtxUsers,
          s \in CtxSessions, use_context \in BOOLEAN :
          ProcessAdvancedCommand(id, text, u, s, use_context, 0)
    \/ ClassifyTick

\* One caller continues the workflows, one call after the other (concurrent
\* callers are those of WorkflowNext).  continue_workflow never reads its
\* user_input, so ContinueStart is the call with any user_input.
StepCalls == {1}

StepsNext ==
    \/ \E id \in WorkflowIds, text \in ProcTexts, category \in ProcCategories :
          DetectWorkflowCall(id, text, category)
    \/ \E c \in StepCalls, id \in WorkflowIds : ContinueStart(c, id)
    \/ \E c \in StepCalls : ContinueFinish(c)
    \/ \E c \in StepCalls : ContinueReturn(c)
    \/ \E c \in StepCalls : ContinueInterrupted(c)

\* A step's parameters hold a prompted parameter without a value.
Unresolved(parameters) ==
    \E n \in DOMAIN parameters :
        parameters[n].type = "prompted" /\ parameters[n].value = <<>>

C30_WorkflowCreatedWhenMultiStep ==
    lastProcess.calls > 0 =>
        LET analysis == IntentAnalysis(lastProcess.text) IN
        /\ lastProcess.workflow # <<>>
               <=> (analysis.workflow_template # <<>>
                       \/ analysis.estimated_steps > 1)
        /\ lastProcess.workflow # <<>> =>
               LET w == active_workflows[lastProcess.workflow[1]] IN
               /\ w.status = "pending"
               /\ w.current_step = 0
               /\ \A i \in DOMAIN w.steps : w.steps[i] = "pending"
               /\ Len(w.steps) <= 10

(***************************************************************************)
(*                          SPECIFICATIONS                                 *)
(***************************************************************************)

GatewayInit == toolOps = {} /\ lastResponse = None

Init ==
    /\ BridgeInit /\ GatewayInit /\ ContextInit /\ WorkflowInit
    /\ SessionInit /\ ShutdownInit /\ AuthInit /\ HistoryInit /\ ClassifierInit /\ OptimizerInit /\ BatchInit

SpecBridge == Init /\ [][BridgeNext]_vars
SpecGateway == Init /\ [][GatewayNext]_vars
SpecContext == Init /\ [][ContextNext]_vars
SpecWorkflow == Init /\ [][WorkflowNext]_vars
SpecSession == Init /\ [][SessionNext]_vars
SpecJanitor == Init /\ [][JanitorNext]_vars
SpecShutdown == Init /\ [][ShutdownNext]_vars
SpecDuplex == Init /\ [][DuplexNext]_vars
SpecAuth == Init /\ [][AuthNext]_vars
SpecHistory == Init /\ [][HistoryNext]_vars
SpecClassifier == Init /\ [][ClassifierNext]_vars
SpecExpiry == Init /\ [][ExpiryNext]_vars
SpecOptimizer == Init /\ [][OptimizerNext]_vars
SpecDegrade == Init /\ [][DegradeNext]_vars
SpecBatch == Init /\ [][BatchNext]_vars
SpecBatchFair == Init /\ [][BatchNext]_vars /\ BatchFairness
SpecProcessor == Init /\ [][ProcessorNext]_vars
SpecSteps == Init /\ [][StepsNext]_vars
SpecWarm == Init /\ [][WarmNext]_vars

SpecBatchError == Init /\ [][BatchErrorNext]_vars
SpecSessionStore == Init /\ [][SessionStoreNext]_vars
SpecIsolation == Init /\ [][IsolationNext]_vars
====
